---- MODULE Spec2Model ----
(***************************************************************************)
(* rawtoaces: the memoizing LRU cache (rawtoaces_util/cache_base.h) and    *)
(* the transform orchestration built on it                                 *)
(* (rawtoaces_util/colour_transforms.cpp).                                 *)
(***************************************************************************)
EXTENDS Integers, Sequences, FiniteSets, TLC

\* ------------------------------------------------------------------ bounds

NumDescriptors == 3
MaxCapacity == 2
MaxCalls == 2

Descriptors == 1..NumDescriptors
Capacities == 1..MaxCapacity

\* Data is an int in tests/testCache.cpp: emplace_front() value-initialises it,
\* and the tests' compute writes 42. The cache never inspects the data.
DefaultData == 0
TestData == 42
Data == {DefaultData, TestData}

\* The callable handed to fetch: what it would return and write if invoked.
Computes == [ok : BOOLEAN, val : Data]

VARIABLES
    _map,       \* Cache::_map, front first: records [desc, success, data]
    disabled,   \* Cache::disabled
    capacity,   \* Cache::capacity
    last,       \* history: the last fetch, its inputs, outcome and what it found
    recency,    \* history: descriptors fetched since the last clear, latest first
    older,      \* history: older[d] = descriptors stored at the last hit on d
                \*          and not fetched since
    failed,     \* history: descriptors whose last compute returned false and
                \*          whose entry was neither evicted nor cleared since
    caches,     \* the process-wide caches of transform_cache.cpp, by name
    solver,     \* the caller's SpectralSolver, passed by reference to each call
    olast,      \* history: the last orchestration call, its inputs and outputs
    ncalls,     \* history: orchestration calls made so far
    pure,       \* the arguments of a function without state, and its result
    threads     \* the callers inside Cache::fetch, each with its position

cacheVars == <<_map, disabled, capacity, last, recency, older, failed>>

orchVars == <<caches, solver, olast, ncalls>>

extraVars == <<pure, threads>>

vars == <<_map, disabled, capacity, last, recency, older, failed,
          caches, solver, olast, ncalls, pure, threads>>

\* ------------------------------------------------------- Cache<Descriptor,Data>

Pair(ok, data) == [ok |-> ok, data |-> data]

Entry(d, ok, data) == [desc |-> d, success |-> ok, data |-> data]

\* Mutants of the scan: one that never matches, one that starts at the second
\* entry, one that passes over entries holding a failed result.
FindNever(m, d) == 0

FindFromSecond(m, d) ==
    IF \E i \in DOMAIN m : i > 1 /\ m[i].desc = d
    THEN CHOOSE i \in DOMAIN m : i > 1 /\ m[i].desc = d
    ELSE 0

FindSuccessful(m, d) ==
    IF \E i \in DOMAIN m : m[i].desc = d /\ m[i].success
    THEN CHOOSE i \in DOMAIN m : m[i].desc = d /\ m[i].success
    ELSE 0

\* The linear scan of fetch: the position of the first entry equal to d, 0 if none.
Find(m, d) ==
    IF \E i \in DOMAIN m : m[i].desc = d
    THEN CHOOSE i \in DOMAIN m :
             m[i].desc = d /\ \A j \in 1..(i - 1) : m[j].desc # d
    ELSE 0

\* Mutant: the matched entry is left where it is.
SpliceNoMove(m, i) == m

\* Mutant: the entries in front of the matched one are lost.
SpliceTail(m, i) == <<m[i]>> \o SubSeq(m, i + 1, Len(m))

\* _map.splice(_map.begin(), _map, iter, next(iter)), skipped when iter is begin().
Splice(m, i) ==
    IF i # 1
    THEN <<m[i]>> \o SubSeq(m, 1, i - 1) \o SubSeq(m, i + 1, Len(m))
    ELSE m

\* Mutant: the front entry is dropped instead of the back one.
PopFront(m) == SubSeq(m, 2, Len(m))

\* _map.pop_back()
PopBack(m) == SubSeq(m, 1, Len(m) - 1)

\* Mutant: eviction starts one entry too late.
EvictLate(m, cap) == IF Len(m) > cap THEN SubSeq(m, 1, Len(m) - 1) ELSE m

\* if (_map.size() == capacity) _map.pop_back();
Evict(m, cap) == IF Len(m) = cap THEN PopBack(m) ELSE m

\* Mutant: a disabled fetch keeps the stored entries.
ClearNothing(m) == m

\* _map.clear()
Clear(m) == <<>>

\* Mutant: the new entry is appended at the back.
EmplaceBack(m, d, c) == m \o <<[desc |-> d, success |-> c.ok, data |-> c.val]>>

\* _map.emplace_front(); entry.first = descriptor;
\* entry.second.first = func(entry.second.second);
EmplaceFront(m, d, c) == <<Entry(d, c.ok, c.val)>> \o m

\* Cache::fetch as a function of the cache's fields: the new list, the pair the
\* returned reference denotes, whether the scan matched, and how often func ran.
CacheFetch(m, dis, cap, d, c) ==
    LET i == IF dis THEN 0 ELSE Find(m, d) IN
    IF i # 0
    THEN LET m2 == Splice(m, i) IN
         [map |-> m2, ret |-> Pair(m2[1].success, m2[1].data),
          hit |-> TRUE, calls |-> 0]
    ELSE LET m1 == IF dis THEN Clear(m) ELSE Evict(m, cap)
             m2 == EmplaceFront(m1, d, c)
         IN  [map |-> m2, ret |-> Pair(m2[1].success, m2[1].data),
              hit |-> FALSE, calls |-> 1]

\* ------------------------------------------------------------ SpectralSolver
\* rawtoaces_core is not part of the sources at hand: the solver is modelled from
\* the specification (4.3) and from what the tests observe of it.

\* (make, model) pairs of the fixtures: one with valid spectral data, one whose
\* data file has four channels.
Cameras == {"GoodCam", "BadCam"}

\* Illuminant arguments: none, a daylight type in range, one out of range.
Illuminants == {"", "D65", "d3999"}

\* White-balance multipliers, in tenths (k_wb_multipliers = {1.5, 1.0, 1.2}).
Multipliers == {<<15, 10, 12>>}

\* The databases a solver can be constructed on.
Databases ==
    { [name |-> "full", cameras |-> {"GoodCam", "BadCam"},
       incorrect |-> {"BadCam"}, training |-> TRUE, observer |-> TRUE,
       rev |-> 1, fit |-> TRUE],
      [name |-> "empty", cameras |-> {}, incorrect |-> {},
       training |-> TRUE, observer |-> TRUE, rev |-> 1, fit |-> TRUE],
      [name |-> "no training", cameras |-> {"GoodCam"}, incorrect |-> {},
       training |-> FALSE, observer |-> TRUE, rev |-> 2, fit |-> TRUE],
      [name |-> "no observer", cameras |-> {"GoodCam"}, incorrect |-> {},
       training |-> TRUE, observer |-> FALSE, rev |-> 2, fit |-> TRUE] }

\* A database on whose camera data the fit of the IDT matrix does not converge.
NoFitDatabase ==
    [name |-> "no fit", cameras |-> {"GoodCam"}, incorrect |-> {},
     training |-> TRUE, observer |-> TRUE, rev |-> 3, fit |-> FALSE]

NoCamera == [id |-> "", valid |-> FALSE]

\* SpectralSolver solver( { database_path } )
NewSolverOn(db) == [db |-> db, camera |-> NoCamera, illuminant |-> ""]

\* solver.find_camera(make, model)
FindCamera(sv, cam) ==
    IF cam \in sv.db.cameras
    THEN [ok |-> TRUE,
          sv |-> [sv EXCEPT !.camera =
                     [id |-> cam, valid |-> cam \notin sv.db.incorrect]]]
    ELSE [ok |-> FALSE, sv |-> sv]

\* solver.load_spectral_data(path, solver.training_data / solver.observer)
LoadTraining(sv) == [ok |-> sv.db.training, sv |-> sv]

LoadObserver(sv) == [ok |-> sv.db.observer, sv |-> sv]

\* The characters of a decimal number.
Digits == <<"0", "1", "2", "3", "4", "5", "6", "7", "8", "9">>

DigitValue(c) == (CHOOSE i \in DOMAIN Digits : Digits[i] = c) - 1

IsDigit(c) == \E i \in DOMAIN Digits : Digits[i] = c

\* std::to_string( n ): the decimal spelling of an int, as characters.
RECURSIVE Unsigned(_)
Unsigned(n) ==
    IF n < 10 THEN <<Digits[n + 1]>>
    ELSE Unsigned(n \div 10) \o <<Digits[(n % 10) + 1]>>

Decimal(n) == IF n < 0 THEN <<"-">> \o Unsigned(-n) ELSE Unsigned(n)

\* The value of the longest prefix of digits, read from the left.
RECURSIVE DigitsPrefix(_, _)
DigitsPrefix(chars, acc) ==
    IF chars = <<>> \/ ~IsDigit(Head(chars)) THEN acc
    ELSE DigitsPrefix(Tail(chars), acc * 10 + DigitValue(Head(chars)))

\* atoi: an optional sign, then digits up to the first other character; 0 when
\* there is no digit.
Atoi(chars) ==
    IF chars # <<>> /\ Head(chars) = "-" THEN 0 - DigitsPrefix(Tail(chars), 0)
    ELSE DigitsPrefix(chars, 0)

\* The spelling of the illuminant arguments of the orchestration functions.
Characters(type) ==
    CASE type = "" -> <<>>
      [] type = "D65" -> <<"D", "6", "5">>
      [] type = "d3999" -> <<"d", "3", "9", "9", "9">>

MsgDaylightRange ==
    "The range of Correlated Color Temperature for Day Light should be from 4000 to 25000"
MsgBlackbodyRange ==
    "The range of Color Temperature for BlackBody should be from 1500 to 3999"
MsgNoIlluminant == "no illuminant data of this type in the database"

\* A daylight type gives its temperature in kelvin or, from 40 to 250, in
\* hundreds of kelvin ("D65" is 6500 K).
DaylightKelvin(n) == IF n >= 40 /\ n <= 250 THEN n * 100 ELSE n

\* Mutant: the lowest daylight temperature is refused.
DaylightInRangeAbove(cct) == cct > 4000 /\ cct <= 25000

DaylightInRange(cct) == cct >= 4000 /\ cct <= 25000

BlackbodyInRange(cct) == cct >= 1500 /\ cct <= 3999

\* solver.find_illuminant(type) on the characters of type: "d" or "D" and a
\* number is a daylight type, a number and "K" a blackbody type, anything else
\* is looked up in the database, which holds no illuminant in these fixtures.
FindIlluminant(sv, type, chars) ==
    LET found == [ok |-> TRUE, sv |-> [sv EXCEPT !.illuminant = type],
                  msg |-> ""]
        no(msg) == [ok |-> FALSE, sv |-> sv, msg |-> msg]
    IN  IF chars # <<>> /\ Head(chars) \in {"d", "D"}
        THEN IF DaylightInRange(DaylightKelvin(Atoi(Tail(chars))))
             THEN found ELSE no(MsgDaylightRange)
        ELSE IF chars # <<>> /\ chars[Len(chars)] \in {"k", "K"}
        THEN IF BlackbodyInRange(Atoi(chars))
             THEN found ELSE no(MsgBlackbodyRange)
        ELSE no(MsgNoIlluminant)

\* solver.find_illuminant(type): daylight 4000..25000 K, blackbody 1500..3999 K
FindIlluminantByType(sv, type) == FindIlluminant(sv, type, Characters(type))

\* The type of the illuminant whose white balance, under the camera data of the
\* solver's database, is nearest to the multipliers.
BestIlluminant(sv, mul) == IF sv.db.rev = 1 THEN "D55" ELSE "3200K"

\* What the solver prints when a step is called too early.
MsgCameraForIlluminant ==
    "ERROR: camera needs to be initialised prior to calling SpectralSolver::find_illuminant()"
MsgCameraForWB ==
    "ERROR: camera needs to be initialised prior to calling SpectralSolver::calculate_WB()"
MsgIlluminantForWB ==
    "ERROR: illuminant needs to be initialised prior to calling SpectralSolver::calculate_WB()"

\* solver.find_illuminant(wb_multipliers): needs an initialised camera
FindIlluminantByWB(sv, mul) ==
    IF sv.camera.valid
    THEN [ok |-> TRUE, sv |-> [sv EXCEPT !.illuminant = BestIlluminant(sv, mul)],
          msg |-> ""]
    ELSE [ok |-> FALSE, sv |-> sv, msg |-> MsgCameraForIlluminant]

\* solver.calculate_WB(): needs a resolved illuminant and an initialised camera
CalculateWB(sv) ==
    IF sv.illuminant = ""
    THEN [ok |-> FALSE, sv |-> sv, msg |-> MsgIlluminantForWB]
    ELSE IF ~sv.camera.valid
    THEN [ok |-> FALSE, sv |-> sv, msg |-> MsgCameraForWB]
    ELSE [ok |-> TRUE, sv |-> sv, msg |-> ""]

\* solver.get_WB_multipliers()
WBMultipliers(sv) ==
    [i \in 1..3 |-> <<"wb", i, sv.db.rev, sv.camera.id, sv.illuminant>>]

\* solver.calculate_IDT_matrix()
CalculateIDT(sv) == [ok |-> sv.db.fit, sv |-> sv]

\* solver.get_IDT_matrix()
IDTMatrix(sv) == <<"idt", sv.db.rev, sv.camera.id, sv.illuminant>>

\* ---------------------------------------------------------- colour_transforms

ErrCamera == "Failed to find spectral data for camera"
ErrTraining == "Failed to find training data"
ErrObserver == "Failed to find observer"
ErrIlluminant == "Failed to find illuminant type"
ErrSearch == "Failed to find illuminant from white balance multipliers"
ErrWB == "Failed to calculate white balance multipliers"
ErrMatrix == "Failed to calculate IDT matrix from illuminant"

\* A message left in the caller's string by something earlier.
ErrStale == "an earlier message"

ErrorsIn == {"", ErrStale}

\* One step of a solve: the solver method called and what it returned.
Step(method, ok) == [m |-> method, ok |-> ok]

\* configure_spectral_solver
ConfigureSpectralSolver(sv, cam, ill, load_observer, load_training) ==
    LET c == FindCamera(sv, cam)
        t == IF load_training THEN LoadTraining(c.sv) ELSE [ok |-> TRUE, sv |-> c.sv]
        o == IF load_observer THEN LoadObserver(t.sv) ELSE [ok |-> TRUE, sv |-> t.sv]
        i == IF ill # "" THEN FindIlluminantByType(o.sv, ill)
                         ELSE [ok |-> TRUE, sv |-> o.sv]
        tc == <<Step("find_camera", c.ok)>>
        tt == tc \o (IF load_training
                     THEN <<Step("load_spectral_data(training)", t.ok)>> ELSE <<>>)
        to == tt \o (IF load_observer
                     THEN <<Step("load_spectral_data(observer)", o.ok)>> ELSE <<>>)
        ti == to \o (IF ill # ""
                     THEN <<Step("find_illuminant(type)", i.ok)>> ELSE <<>>)
    IN  IF ~c.ok
        THEN [ok |-> FALSE, err |-> ErrCamera, sv |-> c.sv, trace |-> tc]
        ELSE IF ~t.ok
        THEN [ok |-> FALSE, err |-> ErrTraining, sv |-> t.sv, trace |-> tt]
        ELSE IF ~o.ok
        THEN [ok |-> FALSE, err |-> ErrObserver, sv |-> o.sv, trace |-> to]
        ELSE IF ~i.ok
        THEN [ok |-> FALSE, err |-> ErrIlluminant, sv |-> i.sv, trace |-> ti]
        ELSE [ok |-> TRUE, err |-> "", sv |-> i.sv, trace |-> ti]

\* The value-initialised Data of a new entry, per cache.
NoIlluminantData == <<"", <<>>>>
NoWBData == <<>>
NoMatrixData == <<>>

\* Mutant: the result of configure_spectral_solver is not looked at.
SolveIlluminantUnconfigured(sv, cam, mul) ==
    LET c == ConfigureSpectralSolver(sv, cam, "", FALSE, FALSE)
        f == FindIlluminantByWB(c.sv, mul)
        tf == c.trace \o <<Step("find_illuminant(wb)", f.ok)>>
    IN  IF ~f.ok
        THEN [ok |-> FALSE, val |-> NoIlluminantData, err |-> ErrSearch,
              sv |-> f.sv, trace |-> tf]
        ELSE [ok |-> TRUE, val |-> <<f.sv.illuminant, WBMultipliers(f.sv)>>,
              err |-> "", sv |-> f.sv, trace |-> tf]

\* solve_illuminant_from_multipliers: cache_data is written on success only.
SolveIlluminantFromMultipliers(sv, cam, mul) ==
    LET c == ConfigureSpectralSolver(sv, cam, "", FALSE, FALSE)
        f == FindIlluminantByWB(c.sv, mul)
        tf == c.trace \o <<Step("find_illuminant(wb)", f.ok)>>
    IN  IF ~c.ok
        THEN [ok |-> FALSE, val |-> NoIlluminantData, err |-> c.err, sv |-> c.sv,
              trace |-> c.trace]
        ELSE IF ~f.ok
        THEN [ok |-> FALSE, val |-> NoIlluminantData, err |-> ErrSearch,
              sv |-> f.sv, trace |-> tf]
        ELSE [ok |-> TRUE, val |-> <<f.sv.illuminant, WBMultipliers(f.sv)>>,
              err |-> "", sv |-> f.sv, trace |-> tf]

\* solve_multipliers_from_illuminant
SolveMultipliersFromIlluminant(sv, cam, ill) ==
    LET c == ConfigureSpectralSolver(sv, cam, ill, FALSE, FALSE)
        w == CalculateWB(c.sv)
        tw == c.trace \o <<Step("calculate_WB", w.ok)>>
    IN  IF ~c.ok
        THEN [ok |-> FALSE, val |-> NoWBData, err |-> c.err, sv |-> c.sv,
              trace |-> c.trace]
        ELSE IF ~w.ok
        THEN [ok |-> FALSE, val |-> NoWBData, err |-> ErrWB, sv |-> w.sv,
              trace |-> tw]
        ELSE [ok |-> TRUE, val |-> WBMultipliers(w.sv), err |-> "", sv |-> w.sv,
              trace |-> tw]

\* Mutant: the matrix is calculated whatever calculate_WB returned.
SolveMatrixPastWB(sv, cam, ill) ==
    LET c == ConfigureSpectralSolver(sv, cam, ill, TRUE, TRUE)
        w == CalculateWB(c.sv)
        m == CalculateIDT(w.sv)
        tw == c.trace \o <<Step("calculate_WB", w.ok)>>
        tm == tw \o <<Step("calculate_IDT_matrix", m.ok)>>
    IN  IF ~c.ok
        THEN [ok |-> FALSE, val |-> NoMatrixData, err |-> "", sv |-> c.sv,
              trace |-> c.trace]
        ELSE IF ~m.ok
        THEN [ok |-> FALSE, val |-> NoMatrixData, err |-> "", sv |-> m.sv,
              trace |-> tm]
        ELSE [ok |-> TRUE, val |-> IDTMatrix(m.sv), err |-> "", sv |-> m.sv,
              trace |-> tm]

\* solve_matrix_from_illuminant: its error_msg is a local, nothing gets out.
SolveMatrixFromIlluminant(sv, cam, ill) ==
    LET c == ConfigureSpectralSolver(sv, cam, ill, TRUE, TRUE)
        w == CalculateWB(c.sv)
        m == CalculateIDT(w.sv)
        tw == c.trace \o <<Step("calculate_WB", w.ok)>>
        tm == tw \o <<Step("calculate_IDT_matrix", m.ok)>>
    IN  IF ~c.ok
        THEN [ok |-> FALSE, val |-> NoMatrixData, err |-> "", sv |-> c.sv,
              trace |-> c.trace]
        ELSE IF ~w.ok
        THEN [ok |-> FALSE, val |-> NoMatrixData, err |-> "", sv |-> w.sv,
              trace |-> tw]
        ELSE IF ~m.ok
        THEN [ok |-> FALSE, val |-> NoMatrixData, err |-> "", sv |-> m.sv,
              trace |-> tm]
        ELSE [ok |-> TRUE, val |-> IDTMatrix(m.sv), err |-> "", sv |-> m.sv,
              trace |-> tm]

\* The four caches of transform_cache.cpp, each a static of its own getter.
WBFromIlluminant == "WB from illuminant"
IlluminantFromWB == "illuminant from WB"

\* Mutant: get_matrix_from_illuminant_cache hands out the WB cache, which has
\* the same descriptor type.
MatrixFromIlluminantShared == "WB from illuminant"

MatrixFromIlluminant == "matrix from illuminant"
MatrixFromDNGMetadata == "matrix from DNG metadata"

CacheNames ==
    {WBFromIlluminant, IlluminantFromWB, MatrixFromIlluminant,
     MatrixFromDNGMetadata}

DefaultCapacity == 10

DefaultVerbosity == 0

\* The verbosity arguments of the callers: silent, and logging.
Verbosities == {DefaultVerbosity, 1}

\* Cache( name ): disabled = false, capacity = 10, verbosity = 0, an empty list.
NewCache ==
    [map |-> <<>>, disabled |-> FALSE, capacity |-> DefaultCapacity,
     verbosity |-> DefaultVerbosity]

\* What the caller's output argument holds before a call: the vector or matrix,
\* and the illuminant string.
OutBefore == <<"caller's value">>
IlluminantBefore == "caller's illuminant"

NoCall ==
    [fn |-> "none", cache |-> "none", key |-> <<>>, disable |-> FALSE,
     hit |-> FALSE,
     calls |-> 0, success |-> FALSE, out |-> <<>>, errIn |-> "",
     err |-> "", errWritten |-> FALSE,
     outIn |-> <<>>,
     fresh |-> [success |-> FALSE, out |-> <<>>],
     trace |-> <<>>, solved |-> Pair(FALSE, <<>>), inner |-> ""]

OrchInit ==
    /\ caches = [n \in CacheNames |-> NewCache]
    /\ solver \in {NewSolverOn(db) : db \in {x \in Databases : x.name = "full"}}
    /\ olast = NoCall
    /\ ncalls = 0
    /\ threads = <<>>

\* Mutant: the solve is run on the caller's solver before the cache is asked.
SolverAfterEager(sv, solve, r) == solve.sv

\* The callable captures the solver by reference: the caller's solver is what
\* the solve left of it if fetch invoked the callable, and untouched otherwise.
SolverAfter(sv, solve, r) == IF r.calls > 0 THEN solve.sv ELSE sv

\* The solver methods called during the call, in order.
MethodsCalled(solve, r) == IF r.calls > 0 THEN solve.trace ELSE <<>>

\* The part the fetch functions share: set the cache's flags, fetch
\* with the solve as the callable, and record the call. `solve` is what the
\* callable does if it is invoked; `res` is what the function hands back,
\* [success, out, err, errWritten]; `fresh` is what it hands back when the
\* callable runs, as it does with the cache disabled.
OrchCall(fn, name, key, v, dis, errIn, solve, res, fresh, r) ==
    /\ ncalls < MaxCalls
    /\ ncalls' = ncalls + 1
    /\ caches' = [caches EXCEPT ![name] =
                    [map |-> r.map, disabled |-> dis, capacity |-> @.capacity,
                     verbosity |-> v]]
    /\ solver' = SolverAfter(solver, solve, r)
    /\ olast' = [fn |-> fn, cache |-> name, key |-> key, disable |-> dis,
                 hit |-> r.hit,
                 calls |-> r.calls, success |-> res.success, out |-> res.out,
                 errIn |-> errIn, err |-> res.err,
                 errWritten |-> res.errWritten,
                 outIn |-> res.outIn,
                 fresh |-> fresh,
                 trace |-> MethodsCalled(solve, r),
                 solved |-> Pair(solve.ok, solve.val),
                 inner |-> solve.err]
    /\ UNCHANGED cacheVars
    /\ UNCHANGED extraVars

\* out_illuminant after the call: the illuminant of the entry on success,
\* untouched otherwise.
IlluminantOut(success, data, before) == IF success THEN data[1] ELSE before

\* Mutant: a failure clears out_matrix.
MatrixOutCleared(success, data, before) == IF success THEN data ELSE <<>>

\* out_matrix after the call: the matrix of the entry on success; on failure
\* the function returns before it touches out_matrix.
MatrixOut(success, data, before) == IF success THEN data ELSE before

\* fetch_illuminant_from_multipliers
FetchIlluminantFromMultipliers(cam, mul, v, dis, errIn) ==
    \E solve \in {SolveIlluminantFromMultipliers(solver, cam, mul)} :
    \E r \in {CacheFetch(caches[IlluminantFromWB].map, dis,
                         caches[IlluminantFromWB].capacity, <<cam, mul>>, solve)} :
    LET solve_error == IF r.calls > 0 THEN solve.err ELSE ""
        success == r.ret.ok
        write == ~success /\ solve_error # ""
    IN  OrchCall("fetch_illuminant_from_multipliers", IlluminantFromWB,
                 <<cam, mul>>, v, dis, errIn, solve,
                 [success |-> success,
                  outIn |-> IlluminantBefore,
                  out |-> IlluminantOut(success, r.ret.data, IlluminantBefore),
                  err |-> IF write THEN solve_error ELSE errIn,
                  errWritten |-> write],
                 [success |-> solve.ok,
                  out |-> IlluminantOut(solve.ok, solve.val, IlluminantBefore)],
                 r)

\* Mutant: a failure leaves out_multipliers as the caller passed it.
MultipliersOutKept(success, data, before) ==
    IF success THEN [i \in 1..3 |-> data[i]] ELSE before

\* out_multipliers after the call: resize( 3 ) and the three values of the
\* entry on success, resize( 0 ) otherwise.
MultipliersOut(success, data, before) ==
    IF success THEN [i \in 1..3 |-> data[i]] ELSE <<>>

\* fetch_multipliers_from_illuminant. The source holds unresolved merge markers
\* around the fetch call (lines 198-207); every side declares solve_error and
\* calls fetch on the WB-from-illuminant cache, which is what is modelled.
FetchMultipliersFromIlluminant(cam, ill, v, dis, errIn) ==
    \E solve \in {SolveMultipliersFromIlluminant(solver, cam, ill)} :
    \E r \in {CacheFetch(caches[WBFromIlluminant].map, dis,
                         caches[WBFromIlluminant].capacity, <<cam, ill>>, solve)} :
    LET solve_error == IF r.calls > 0 THEN solve.err ELSE ""
        success == r.ret.ok
        write == ~success /\ solve_error # ""
    IN  OrchCall("fetch_multipliers_from_illuminant", WBFromIlluminant,
                 <<cam, ill>>, v, dis, errIn, solve,
                 [success |-> success,
                  outIn |-> OutBefore,
                  out |-> MultipliersOut(success, r.ret.data, OutBefore),
                  err |-> IF write THEN solve_error ELSE errIn,
                  errWritten |-> write],
                 [success |-> solve.ok,
                  out |-> MultipliersOut(solve.ok, solve.val, OutBefore)], r)

\* fetch_matrix_from_illuminant
FetchMatrixFromIlluminant(cam, ill, v, dis, errIn) ==
    \E solve \in {SolveMatrixFromIlluminant(solver, cam, ill)} :
    \E r \in {CacheFetch(caches[MatrixFromIlluminant].map, dis,
                         caches[MatrixFromIlluminant].capacity, <<cam, ill>>,
                         solve)} :
    LET success == r.ret.ok
        write == ~success /\ errIn = ""
    IN  OrchCall("fetch_matrix_from_illuminant", MatrixFromIlluminant,
                 <<cam, ill>>, v, dis, errIn, solve,
                 [success |-> success,
                  outIn |-> OutBefore,
                  out |-> MatrixOut(success, r.ret.data, OutBefore),
                  err |-> IF write THEN ErrMatrix ELSE errIn,
                  errWritten |-> write],
                 [success |-> solve.ok,
                  out |-> MatrixOut(solve.ok, solve.val, OutBefore)], r)

\* ------------------------------------------------------------------ Metadata
\* core::Metadata as the tests build it: two calibration entries (illuminant
\* tag, camera calibration matrix, XYZ to RGB matrix), neutral_RGB and
\* baseline_exposure. The matrices and neutral_RGB are vectors of doubles.

Calibration(ill, ccm, xyz) ==
    [illuminant |-> ill, camera_calibration_matrix |-> ccm,
     XYZ_to_RGB_matrix |-> xyz]

MakeMetadata(c1, c2, neutral, exposure) ==
    [calibration |-> <<c1, c2>>, neutral_RGB |-> neutral,
     baseline_exposure |-> exposure]

\* metadata1 of testCache_metadata_comparison.
Metadata1 ==
    MakeMetadata(
        Calibration(11, <<10, 11, 12, 13, 14, 15, 16, 17, 18>>,
                        <<20, 21, 22, 23, 24, 25, 26, 27, 28>>),
        Calibration(21, <<30, 31, 32, 33, 34, 35, 36, 37, 38>>,
                        <<40, 41, 42, 43, 44, 45, 46, 47, 48>>),
        <<1, 2, 3>>, 4)

\* The doubles are modelled by integers, and the not-a-number values by NaN.
NaN == -1

\* x != y on doubles: a NaN differs from every value, itself included.
DoubleNe(x, y) == x = NaN \/ y = NaN \/ x # y

\* u != v on std::vector<double>: the sizes, then element by element.
VectorNe(u, v) ==
    Len(u) # Len(v) \/ \E i \in DOMAIN u : DoubleNe(u[i], v[i])

\* Mutant: only the first calibration entry is compared.
MetadataEqFirstEntry(data1, data2) ==
    /\ ~DoubleNe(data1.baseline_exposure, data2.baseline_exposure)
    /\ ~VectorNe(data1.neutral_RGB, data2.neutral_RGB)
    /\ data1.calibration[1].illuminant = data2.calibration[1].illuminant
    /\ ~VectorNe(data1.calibration[1].camera_calibration_matrix,
                 data2.calibration[1].camera_calibration_matrix)
    /\ ~VectorNe(data1.calibration[1].XYZ_to_RGB_matrix,
                 data2.calibration[1].XYZ_to_RGB_matrix)

\* operator==( Metadata, Metadata ): field by field, returning at the first
\* difference.
MetadataEq(data1, data2) ==
    IF DoubleNe(data1.baseline_exposure, data2.baseline_exposure) THEN FALSE
    ELSE IF VectorNe(data1.neutral_RGB, data2.neutral_RGB) THEN FALSE
    ELSE \A i \in 1..2 :
            LET c1 == data1.calibration[i]
                c2 == data2.calibration[i]
            IN  ~ \/ c1.illuminant # c2.illuminant
                  \/ VectorNe(c1.camera_calibration_matrix,
                              c2.camera_calibration_matrix)
                  \/ VectorNe(c1.XYZ_to_RGB_matrix, c2.XYZ_to_RGB_matrix)

\* One field changed as the test changes it: matrix[3] to 55, neutral_RGB[1] to
\* 11, an illuminant to 31, the exposure to 5; and an exposure that is no number.
MatrixValues(m) == {m, [m EXCEPT ![4] = 55]}

CalibrationValues(c) ==
    {Calibration(ill, ccm, xyz) :
        ill \in {c.illuminant, 31},
        ccm \in MatrixValues(c.camera_calibration_matrix),
        xyz \in MatrixValues(c.XYZ_to_RGB_matrix)}

\* metadata1 and every value reached from it by changing any set of fields.
MetadataValues ==
    {MakeMetadata(c1, c2, neutral, exposure) :
        c1 \in CalibrationValues(Metadata1.calibration[1]),
        c2 \in CalibrationValues(Metadata1.calibration[2]),
        neutral \in {Metadata1.neutral_RGB,
                     [Metadata1.neutral_RGB EXCEPT ![2] = 11]},
        exposure \in {Metadata1.baseline_exposure, 5, NaN}}

\* MetadataSolver( metadata ).calculate_IDT_matrix(): a 3x3 matrix computed
\* from the calibration entries and neutral_RGB; it never fails.
MetadataIDT(md) ==
    << <<md.calibration[1].illuminant, md.calibration[2].illuminant,
         md.neutral_RGB[1]>>,
       <<md.neutral_RGB[2], md.neutral_RGB[3],
         md.calibration[1].camera_calibration_matrix[4]>>,
       <<md.calibration[2].camera_calibration_matrix[4],
         md.calibration[1].XYZ_to_RGB_matrix[4],
         md.calibration[2].XYZ_to_RGB_matrix[4]>> >>

\* The metadata handed to fetch_matrix_from_metadata: that of one image, and
\* that of an image shot under another second illuminant. Neither holds a NaN,
\* so that operator== on them is the equality of the values.
MetadataInputs ==
    {Metadata1, [Metadata1 EXCEPT !.calibration[2].illuminant = 31]}

\* What the caller's out_matrix holds before the call: nothing, a shorter
\* matrix, a larger one.
MatricesBefore ==
    { <<>>, << <<7>> >>,
      << <<7, 7, 7, 7>>, <<7, 7, 7, 7>>, <<7, 7, 7, 7>>, <<7, 7, 7, 7>> >> }

\* std::vector::resize( n ): cut at n, or filled up with value-initialised
\* elements.
Resize(vec, n, fill) == [i \in 1..n |-> IF i <= Len(vec) THEN vec[i] ELSE fill]

\* Mutant: the rows are resized, the matrix itself is not.
WriteMatrixRowsOnly(out, matrix) ==
    [row \in DOMAIN out |->
        [col \in DOMAIN Resize(out[row], 3, 0) |-> matrix[row][col]]]

\* out_matrix.resize( 3 ); for each row: out_matrix[row].resize( 3 ) and
\* out_matrix[row][col] = matrix[row][col].
WriteMatrix(out, matrix) ==
    LET rows == Resize(out, 3, <<>>) IN
    [row \in DOMAIN rows |->
        [col \in DOMAIN Resize(rows[row], 3, 0) |-> matrix[row][col]]]

\* solve_matrix_from_metadata inside the callable, which returns true. No
\* SpectralSolver takes part: sv is handed through.
SolveMatrixFromMetadata(md, sv) ==
    [ok |-> TRUE, val |-> MetadataIDT(md), err |-> "", sv |-> sv,
     trace |-> <<>>]

\* fetch_matrix_from_metadata: no result, no error_message; the entry's flag is
\* not looked at.
FetchMatrixFromMetadata(md, v, dis, before) ==
    \E solve \in {SolveMatrixFromMetadata(md, solver)} :
    \E r \in {CacheFetch(caches[MatrixFromDNGMetadata].map, dis,
                         caches[MatrixFromDNGMetadata].capacity, md, solve)} :
        OrchCall("fetch_matrix_from_metadata", MatrixFromDNGMetadata,
                 md, v, dis, "", solve,
                 [success |-> r.ret.ok,
                  outIn |-> before,
                  out |-> WriteMatrix(before, r.ret.data),
                  err |-> "", errWritten |-> FALSE],
                 [success |-> solve.ok,
                  out |-> WriteMatrix(before, solve.val)], r)

\* The caller constructs another solver, on any database.
NewSolver(db) ==
    /\ solver # NewSolverOn(db)
    /\ solver' = NewSolverOn(db)
    /\ UNCHANGED <<caches, olast, ncalls>>
    /\ UNCHANGED cacheVars
    /\ UNCHANGED extraVars

OrchNext ==
    \/ \E cam \in Cameras, mul \in Multipliers, dis \in BOOLEAN,
          errIn \in ErrorsIn :
           FetchIlluminantFromMultipliers(cam, mul, DefaultVerbosity, dis, errIn)
    \/ \E cam \in Cameras, ill \in Illuminants, dis \in BOOLEAN,
          errIn \in ErrorsIn :
           FetchMultipliersFromIlluminant(cam, ill, DefaultVerbosity, dis, errIn)
    \/ \E cam \in Cameras, ill \in Illuminants, dis \in BOOLEAN,
          errIn \in ErrorsIn :
           FetchMatrixFromIlluminant(cam, ill, DefaultVerbosity, dis, errIn)
    \/ \E db \in Databases : NewSolver(db)

\* ------------------------------------------------------------ history helpers

Descs(m) == {m[i].desc : i \in DOMAIN m}

DescSeq(m) == [i \in DOMAIN m |-> m[i].desc]

StoredPairs(m, d) ==
    {Pair(m[i].success, m[i].data) : i \in {j \in DOMAIN m : m[j].desc = d}}

Range(s) == {s[i] : i \in DOMAIN s}

Without(s, d) == SelectSeq(s, LAMBDA x : x # d)

Take(s, n) == SubSeq(s, 1, IF n < Len(s) THEN n ELSE Len(s))

\* The descriptors of S fetched least recently, by the recency history r.
Oldest(S, r) ==
    {x \in S : \A y \in S :
        \A i, j \in DOMAIN r : (r[i] = x /\ r[j] = y) => i >= j}

NoFetch ==
    [op |-> "none", d |-> 0, c |-> Pair(FALSE, DefaultData), dis |-> FALSE,
     hit |-> FALSE, calls |-> 0, ret |-> Pair(FALSE, DefaultData),
     pre |-> {}, preLen |-> 0, refetch |-> FALSE, memo |-> FALSE]

\* ----------------------------------------------------------------- actions

\* A cache under test: constructed, then given the capacity the test sets.
CacheInit(caps) ==
    /\ _map = <<>>
    /\ disabled = FALSE
    /\ capacity \in caps
    /\ last = NoFetch
    /\ recency = <<>>
    /\ older = [d \in Descriptors |-> {}]
    /\ failed = {}

\* No function without state has been applied.
NoPure == [fn |-> "none", in |-> <<>>, out |-> <<>>]

Init ==
    /\ CacheInit(Capacities)
    /\ OrchInit
    /\ pure = NoPure

\* cache.fetch(d, func): the cache's fields and the record of the call.
FetchCore(d, c) ==
    LET r == CacheFetch(_map, disabled, capacity, d, c) IN
    /\ _map' = r.map
    /\ last' = [op |-> "fetch", d |-> d, c |-> Pair(c.ok, c.val),
                dis |-> disabled, hit |-> r.hit, calls |-> r.calls,
                ret |-> r.ret,
                pre |-> StoredPairs(_map, d),
                preLen |-> Len(_map),
                refetch |-> d \in Range(recency) /\ d \notin Descs(_map),
                memo |-> d \in failed]
    /\ failed' = ((failed \cap Descs(r.map)) \ (IF r.calls > 0 THEN {d} ELSE {}))
                     \cup (IF r.calls > 0 /\ ~c.ok THEN {d} ELSE {})
    /\ UNCHANGED <<disabled, capacity>>

\* cache.fetch(d, func)
Fetch(d, c) ==
    /\ FetchCore(d, c)
    /\ UNCHANGED <<recency, older>>
    /\ UNCHANGED orchVars
    /\ UNCHANGED extraVars

\* cache.fetch(d, func), with the order of last fetches kept as history.
FetchTracked(d, c) ==
    /\ FetchCore(d, c)
    /\ recency' = <<d>> \o Without(recency, d)
    /\ older' = [x \in Descriptors |->
                    IF x = d
                    THEN IF d \in Descs(_map) THEN Descs(_map) \ {d} ELSE {}
                    ELSE older[x] \ {d}]
    /\ UNCHANGED orchVars
    /\ UNCHANGED extraVars

\* The caller assigns the public field before a fetch.
SetDisabled(b) ==
    /\ disabled # b
    /\ disabled' = b
    /\ UNCHANGED <<_map, capacity, last, recency, older, failed>>
    /\ UNCHANGED orchVars
    /\ UNCHANGED extraVars

Next ==
    \/ \E d \in Descriptors, c \in Computes : Fetch(d, c)
    \/ \E b \in BOOLEAN : SetDisabled(b)

Spec == Init /\ [][Next]_vars

\* The caller assigns the public field capacity between two fetches; 0 and
\* values below the number of stored entries are values of a size_t like any
\* other.
SetCapacity(n) ==
    /\ capacity # n
    /\ capacity' = n
    /\ last' = [last EXCEPT !.op = "capacity"]
    /\ UNCHANGED <<_map, disabled, recency, older, failed>>
    /\ UNCHANGED orchVars
    /\ UNCHANGED extraVars

\* The fetch reaches _map.pop_back() with an empty list: a miss of the enabled
\* cache that finds size() == capacity == 0.
PopsEmpty == ~disabled /\ capacity = 0 /\ _map = <<>>

\* cache.fetch(d, func) at any capacity. pop_back() on an empty std::list is
\* undefined: the call may go on as if nothing had been removed, or the
\* program may stop inside it.
FetchAtCapacity(d, c) ==
    /\ pure.fn # "stopped"
    /\ \/ /\ FetchCore(d, c)
          /\ pure' = IF PopsEmpty
                      THEN [fn |-> "pop_back", in |-> <<>>, out |-> <<>>]
                      ELSE NoPure
       \/ /\ PopsEmpty
          /\ pure' = [fn |-> "stopped", in |-> <<>>, out |-> <<>>]
          /\ last' = [last EXCEPT !.op = "stopped"]
          /\ UNCHANGED <<_map, disabled, capacity, failed>>
    /\ UNCHANGED <<recency, older, threads>>
    /\ UNCHANGED orchVars

NextCapacity ==
    \/ \E d \in Descriptors, c \in Computes : FetchAtCapacity(d, c)
    \/ \E n \in 0..MaxCapacity : pure.fn # "stopped" /\ SetCapacity(n)

SpecCapacity == Init /\ [][NextCapacity]_vars

\* cache.fetch(d, func). When the fetch before it was made with disabled =
\* true, that fetch and the descriptors stored before it are kept as history;
\* a disabled fetch keeps the descriptors it found.
FetchAfter(d, c) ==
    /\ FetchCore(d, c)
    /\ pure' = [fn |-> "fetch",
                in |-> IF disabled THEN Descs(_map) ELSE {},
                out |-> IF last.op = "fetch" /\ last.dis /\ pure.fn = "fetch"
                        THEN [prev |-> [op |-> "fetch", d |-> last.d,
                                        dis |-> TRUE, c |-> last.c],
                              stored |-> pure.in]
                        ELSE [prev |-> [op |-> "none", d |-> 0, dis |-> FALSE,
                                        c |-> Pair(FALSE, DefaultData)],
                              stored |-> {}]]
    /\ UNCHANGED <<recency, older, threads>>
    /\ UNCHANGED orchVars

\* Fetches with the disabled flag assigned in between, as the orchestration
\* functions assign it before every fetch.
NextDisabled ==
    \/ \E d \in Descriptors, c \in Computes : FetchAfter(d, c)
    \/ \E b \in BOOLEAN : SetDisabled(b)

SpecDisabled == Init /\ [][NextDisabled]_vars

\* A cache that is never disabled.
NextEnabled == \E d \in Descriptors, c \in Computes : FetchTracked(d, c)

SpecEnabled == Init /\ [][NextEnabled]_vars

\* The orchestration functions called in any order, on the caller's solver.
InitOrch ==
    /\ CacheInit({DefaultCapacity})
    /\ OrchInit
    /\ pure = NoPure

SpecOrch == InitOrch /\ [][OrchNext]_vars

\* fetch_matrix_from_illuminant called on solvers of every database, the one
\* without a fit included.
MatrixNext ==
    \/ \E cam \in Cameras, ill \in Illuminants, dis \in BOOLEAN :
           FetchMatrixFromIlluminant(cam, ill, DefaultVerbosity, dis, "")
    \/ \E db \in Databases \cup {NoFitDatabase} : NewSolver(db)

SpecMatrix == InitOrch /\ [][MatrixNext]_vars

\* The four orchestration functions called by one caller in any order and at
\* any verbosity, for a camera of the database.
FrameNext ==
    \/ \E mul \in Multipliers, v \in Verbosities, dis \in BOOLEAN :
           FetchIlluminantFromMultipliers("GoodCam", mul, v, dis, "")
    \/ \E ill \in Illuminants, v \in Verbosities, dis \in BOOLEAN :
           FetchMultipliersFromIlluminant("GoodCam", ill, v, dis, "")
    \/ \E ill \in Illuminants, v \in Verbosities, dis \in BOOLEAN :
           FetchMatrixFromIlluminant("GoodCam", ill, v, dis, "")
    \/ \E md \in MetadataInputs, v \in Verbosities, dis \in BOOLEAN,
          before \in MatricesBefore :
           FetchMatrixFromMetadata(md, v, dis, before)

SpecFrame == InitOrch /\ [][FrameNext]_vars

\* The caller uses the solver directly: one of its methods is called on the
\* solver as it is, and what it returned and printed is kept.
DirectCall(method, res) ==
    /\ solver' = res.sv
    /\ pure' = [fn |-> method, in |-> solver,
                out |-> [ok |-> res.ok, msg |-> res.msg]]
    /\ UNCHANGED <<caches, olast, ncalls, threads>>
    /\ UNCHANGED cacheVars

DirectFindCamera(cam) ==
    \E res \in {FindCamera(solver, cam)} :
        DirectCall("find_camera", [ok |-> res.ok, sv |-> res.sv, msg |-> ""])

DirectFindIlluminantByWB(mul) ==
    \E res \in {FindIlluminantByWB(solver, mul)} :
        DirectCall("find_illuminant(wb)", res)

DirectCalculateWB ==
    \E res \in {CalculateWB(solver)} : DirectCall("calculate_WB", res)

\* A solver used directly and through the orchestration functions, whose
\* caches are disabled so that every call solves.
SolverNext ==
    \/ \E cam \in Cameras : DirectFindCamera(cam)
    \/ \E mul \in Multipliers : DirectFindIlluminantByWB(mul)
    \/ DirectCalculateWB
    \/ \E db \in Databases : NewSolver(db)
    \/ \E cam \in Cameras, mul \in Multipliers :
           FetchIlluminantFromMultipliers(cam, mul, DefaultVerbosity, TRUE, "")
    \/ \E ill \in Illuminants :
           FetchMultipliersFromIlluminant("GoodCam", ill, DefaultVerbosity,
                                          TRUE, "")
    \/ \E ill \in Illuminants :
           FetchMatrixFromIlluminant("GoodCam", ill, DefaultVerbosity, TRUE, "")

SpecSolver == InitOrch /\ [][SolverNext]_vars

\* ------------------------------------------------- light_source_to_color_temp
\* A function of rawtoaces_core, modelled from the specification (4.1) and the
\* values the tests expect.

\* The tags: unsigned short.
Tags == 0..(2^16 - 1)

\* From here on a tag holds a temperature itself.
ExtendedTag == 32768

\* The temperature for codes the table does not hold.
DefaultColorTemp == 5500

\* The lookup table, as far as the specification and the tests give it: code 17
\* (standard light A) is 2856 K.
LightSourceTable == [code \in {17} |-> 2856]

\* Mutant: the first extended tag is taken for a code.
LightSourceToColorTempAbove(tag) ==
    IF tag > ExtendedTag THEN tag - ExtendedTag
    ELSE IF tag \in DOMAIN LightSourceTable THEN LightSourceTable[tag]
    ELSE DefaultColorTemp

\* light_source_to_color_temp( tag )
LightSourceToColorTemp(tag) ==
    IF tag >= ExtendedTag THEN tag - ExtendedTag
    ELSE IF tag \in DOMAIN LightSourceTable THEN LightSourceTable[tag]
    ELSE DefaultColorTemp

ConvertLightSource ==
    /\ pure.fn = "tag"
    /\ pure' = [fn |-> "light_source_to_color_temp", in |-> pure.in,
                out |-> LightSourceToColorTemp(pure.in)]
    /\ UNCHANGED <<cacheVars, orchVars, threads>>

InitLightSource ==
    /\ CacheInit({DefaultCapacity})
    /\ OrchInit
    /\ pure \in {[fn |-> "tag", in |-> tag, out |-> 0] : tag \in Tags}

SpecLightSource == InitLightSource /\ [][ConvertLightSource]_vars

\* Everything but `pure` as it is before any call.
IdleInit ==
    /\ CacheInit({DefaultCapacity})
    /\ OrchInit

\* metadata1 == metadata2 for two Metadata values.
CompareMetadata ==
    /\ pure.fn = "metadata"
    /\ pure' = [fn |-> "operator==", in |-> pure.in,
                out |-> [eq |-> MetadataEq(pure.in[1], pure.in[2]),
                         rev |-> MetadataEq(pure.in[2], pure.in[1]),
                         self |-> MetadataEq(pure.in[1], pure.in[1])]]
    /\ UNCHANGED <<cacheVars, orchVars, threads>>

InitMetadata ==
    /\ IdleInit
    /\ pure \in {[fn |-> "metadata", in |-> <<a, b>>, out |-> <<>>] :
                    a \in MetadataValues, b \in MetadataValues}

SpecMetadata == InitMetadata /\ [][CompareMetadata]_vars

\* ------------------------------------------------- find_illuminant( type )

\* The numbers the illuminant types are made of: below, between, inside and
\* above both ranges.
Temperatures == (0 - 1)..30000

\* What is written around the number: "d<n>", "D<n>" and "<n>K".
Spellings == {<<"d", "">>, <<"D", "">>, <<"", "K">>}

\* "d" + std::to_string( n ), std::to_string( n ) + "K"
IlluminantType(sp, n) == sp[1] \o ToString(n) \o sp[2]

IlluminantCharacters(sp, n) ==
    (IF sp[1] = "" THEN <<>> ELSE <<sp[1]>>) \o Decimal(n) \o
    (IF sp[2] = "" THEN <<>> ELSE <<sp[2]>>)

\* solver.find_illuminant( type ) on a solver that has resolved no illuminant.
DirectFindIlluminantByType ==
    /\ pure.fn = "type"
    /\ \E res \in {FindIlluminant(solver,
                                   IlluminantType(pure.in.sp, pure.in.n),
                                   IlluminantCharacters(pure.in.sp, pure.in.n))} :
           /\ solver' = res.sv
           /\ pure' = [fn |-> "find_illuminant(type)", in |-> pure.in,
                       out |-> [ok |-> res.ok, msg |-> res.msg]]
    /\ UNCHANGED <<caches, olast, ncalls, threads>>
    /\ UNCHANGED cacheVars

InitIlluminant ==
    /\ IdleInit
    /\ pure \in {[fn |-> "type", in |-> [sp |-> sp, n |-> n], out |-> <<>>] :
                    sp \in Spellings, n \in Temperatures}

SpecIlluminant == InitIlluminant /\ [][DirectFindIlluminantByType]_vars

\* ----------------------------------------------------------------------- main

\* The longest list of filename arguments.
MaxArgs == 2

\* Raw image files of the file system.
RawFiles == {"a.raw", "b.raw", "dir/c.raw"}

\* Its directories, with the entries that pass the filter: one holds a raw
\* file, one holds filtered files only.
Directories == ("dir" :> <<"dir/c.raw">>) @@ ("filtered" :> <<>>)

\* What can be given as a filename: files, directories, a path that does not
\* exist, the empty string.
Paths == {"a.raw", "b.raw", "dir", "filtered", "missing", ""}

ArgLists == UNION {[1..n -> Paths] : n \in 0..MaxArgs}

\* collect_image_files( paths ): the first batch holds the paths that are
\* files, each directory adds a batch with its entries, and other paths are
\* skipped.
CollectImageFiles(paths) ==
    LET F[i \in 0..Len(paths)] ==
            IF i = 0 THEN <<>>
            ELSE IF paths[i] \in RawFiles THEN F[i - 1] \o <<paths[i]>>
            ELSE F[i - 1]
        D[i \in 0..Len(paths)] ==
            IF i = 0 THEN <<>>
            ELSE IF paths[i] \in DOMAIN Directories
            THEN D[i - 1] \o <<Directories[paths[i]]>>
            ELSE D[i - 1]
    IN  <<F[Len(paths)]>> \o D[Len(paths)]

\* The inner loop of main over one batch; process_image fails on the files of
\* `failing`.
RECURSIVE ProcessBatch(_, _, _)
ProcessBatch(batch, failing, st) ==
    IF batch = <<>> THEN st
    ELSE LET result == Head(batch) \notin failing
             next == [empty |-> FALSE, result |-> result,
                      processed |-> Append(st.processed, Head(batch)),
                      file_index |-> st.file_index + 1,
                      printed |-> Append(st.printed, st.file_index + 1)]
         IN  IF ~result THEN next
             ELSE ProcessBatch(Tail(batch), failing, next)

\* Mutant: a failure ends the batch only, the next batch is processed.
RECURSIVE ProcessBatchesOn(_, _, _)
ProcessBatchesOn(batches, failing, st) ==
    IF batches = <<>> THEN st
    ELSE ProcessBatchesOn(Tail(batches), failing,
                          ProcessBatch(Head(batches), failing, st))

\* The outer loop of main over the batches.
RECURSIVE ProcessBatches(_, _, _)
ProcessBatches(batches, failing, st) ==
    IF batches = <<>> THEN st
    ELSE LET next == ProcessBatch(Head(batches), failing, st)
         IN  IF ~next.result THEN next
             ELSE ProcessBatches(Tail(batches), failing, next)

\* total_files: the sizes of the batches added up.
RECURSIVE TotalFiles(_)
TotalFiles(batches) ==
    IF batches = <<>> THEN 0
    ELSE Len(Head(batches)) + TotalFiles(Tail(batches))

\* main: the exit status, the number of times it prints the help, the files it
\* gave to process_image, and the file_index and total_files it printed.
Main(files, parsed, failing) ==
    IF ~parsed
    THEN [exit |-> 1, help |-> 0, processed |-> <<>>, printed |-> <<>>,
          total_files |-> 0]
    ELSE IF files = <<>> \/ (Len(files) = 1 /\ files[1] = "")
    THEN [exit |-> 1, help |-> 1, processed |-> <<>>, printed |-> <<>>,
          total_files |-> 0]
    ELSE LET batches == CollectImageFiles(files)
             st == ProcessBatches(batches, failing,
                                  [empty |-> TRUE, result |-> TRUE,
                                   processed |-> <<>>, file_index |-> 0,
                                   printed |-> <<>>])
         IN  [exit |-> IF st.result THEN 0 ELSE 1,
              help |-> IF st.empty THEN 1 ELSE 0,
              processed |-> st.processed,
              printed |-> st.printed,
              total_files |-> TotalFiles(batches)]

\* One run of the program.
RunMain ==
    /\ pure.fn = "argv"
    /\ pure' = [fn |-> "main", in |-> pure.in,
                out |-> Main(pure.in.files, pure.in.parsed, pure.in.failing)]
    /\ UNCHANGED <<cacheVars, orchVars, threads>>

\* The command line, whether parse_parameters accepts it, and the files on
\* which process_image fails.
InitMain ==
    /\ IdleInit
    /\ pure \in {[fn |-> "argv",
                   in |-> [files |-> files, parsed |-> parsed,
                           failing |-> failing],
                   out |-> <<>>] :
                    files \in ArgLists, parsed \in BOOLEAN,
                    failing \in SUBSET RawFiles}

SpecMain == InitMain /\ [][RunMain]_vars

\* ------------------------------------------------------------------- exiftool
\* Strings are sequences of characters here; "exiftool" and "bad_path" stand
\* for the characters of these names.

\* The longest value of PATH, in characters.
MaxPathLen == 3

\* The longest list of keys given to fetch_metadata.
MaxKeys == 2

\* An environment variable that is not set: getenv returns nullptr.
Unset == [set |-> FALSE, value |-> <<>>]

EnvValue(v) == [set |-> TRUE, value |-> v]

Delimiter == ":"

Name == "exiftool"

\* p /= name: a separator comes between the two unless p is empty.
PathAppend(dir, name) ==
    IF dir = <<>> THEN <<name>> ELSE dir \o <<"/", name>>

\* The files that exist: exiftool is installed in the directories "u" and "o".
ExistingFiles == {PathAppend(<<"u">>, Name), PathAppend(<<"o">>, Name)}

\* The values of RAWTOACES_EXIFTOOL_PATH: not set, empty, a path that names
\* nothing, the path of the installed tool.
ToolEnvs ==
    {Unset, EnvValue(<<>>), EnvValue(<<"bad_path">>),
     EnvValue(PathAppend(<<"u">>, Name))}

\* The values of PATH: not set, or any string of directory names and
\* delimiters.
PathEnvs ==
    {Unset} \cup
    {EnvValue(v) : v \in UNION {[1..n -> {"u", "o", Delimiter}] :
                                  n \in 0..MaxPathLen}}

\* The position of the first delimiter, 0 when there is none: temp.find.
FindDelimiter(temp) ==
    IF \E i \in DOMAIN temp : temp[i] = Delimiter
    THEN CHOOSE i \in DOMAIN temp :
             temp[i] = Delimiter /\ \A j \in 1..(i - 1) : temp[j] # Delimiter
    ELSE 0

\* The loop that cuts PATH into tokens, and the push_back after it.
RECURSIVE SplitPath(_)
SplitPath(temp) ==
    LET pos == FindDelimiter(temp) IN
    IF pos = 0 THEN <<temp>>
    ELSE <<SubSeq(temp, 1, pos - 1)>> \o
         SplitPath(SubSeq(temp, pos + 1, Len(temp)))

\* The loop over the tokens: the first p that exists, with the calls of
\* std::filesystem::exists made on the way.
RECURSIVE SearchPaths(_, _)
SearchPaths(paths, trace) ==
    IF paths = <<>> THEN [path |-> <<>>, trace |-> trace]
    ELSE LET p == PathAppend(Head(paths), Name)
             seen == Append(trace, <<"exists", p>>)
         IN  IF p \in ExistingFiles THEN [path |-> p, trace |-> seen]
             ELSE SearchPaths(Tail(paths), seen)

\* Mutant: PATH is searched first, the variable is the fallback.
FindExiftoolPathFirst(tool, path) ==
    LET found == IF path.set
                 THEN SearchPaths(SplitPath(path.value), <<<<"getenv", "PATH">>>>)
                 ELSE [path |-> <<>>, trace |-> <<<<"getenv", "PATH">>>>]
    IN  IF found.path = <<>> /\ tool.set
        THEN [path |-> tool.value,
              trace |-> Append(found.trace,
                               <<"getenv", "RAWTOACES_EXIFTOOL_PATH">>)]
        ELSE found

\* find_exiftool(): the path it returns and the calls it makes.
FindExiftool(tool, path) ==
    LET first == <<<<"getenv", "RAWTOACES_EXIFTOOL_PATH">>>>
        second == Append(first, <<"getenv", "PATH">>)
    IN  IF tool.set THEN [path |-> tool.value, trace |-> first]
        ELSE IF path.set THEN SearchPaths(SplitPath(path.value), second)
        ELSE [path |-> <<>>, trace |-> second]

\* Mapping from OIIO attribute names to ExifTool attribute names.
OiioToExiftool ==
    [cameraMake |-> "Make", cameraModel |-> "Model", lensModel |-> "LensID",
     aperture |-> "FNumber", focalLength |-> "FocalLength"]

\* Mapping from ExifTool attribute names to OIIO attribute names; the flag
\* says whether the value is converted from string to float.
ExiftoolToOiio ==
    [Make |-> <<"cameraMake", FALSE>>, Model |-> <<"cameraModel", FALSE>>,
     LensID |-> <<"lensModel", FALSE>>, LensModel |-> <<"lensModel", FALSE>>,
     FNumber |-> <<"aperture", TRUE>>, FocalLength |-> <<"focalLength", TRUE>>]

\* The keys the callers ask for: two known ones, one of them a float, and one
\* that is not known.
Keys == {"cameraMake", "aperture", "bad_key"}

KeyLists == UNION {[1..n -> Keys] : n \in 0..MaxKeys}

\* What exiftool prints for the attributes of the test image.
ExifValue ==
    [Make |-> "NIKON CORPORATION", Model |-> "NIKON D200",
     LensID |-> "AF Zoom-Nikkor 28-70mm f/3.5-4.5D", FNumber |-> "8.0",
     FocalLength |-> "28.0 mm"]

\* std::stof on these values, in tenths.
Stof(value) ==
    CASE value = "8.0" -> 80
      [] value = "28.0 mm" -> 280

\* execute( command, stream ): the tool prints the file name and the asked
\* attributes when it is installed at the path of the command and can read
\* the image, and nothing otherwise; errno is not reliable after popen.
Execute(command, errno_zero, readable) ==
    LET lines == IF command.tool \in ExistingFiles /\ readable
                 THEN <<<<"FileName", "image">>>> \o
                      [i \in DOMAIN command.tags |->
                          <<command.tags[i], ExifValue[command.tags[i]]>>]
                 ELSE <<>>
        stream == IF errno_zero THEN lines ELSE <<>>
    IN  [ok |-> errno_zero /\ stream # <<>>, stream |-> stream]

\* The loop over the keys: the tags of the command, or the first unknown key.
RECURSIVE CommandTags(_, _)
CommandTags(keys, tags) ==
    IF keys = <<>> THEN [ok |-> TRUE, tags |-> tags, unknown |-> ""]
    ELSE IF Head(keys) \in DOMAIN OiioToExiftool
    THEN CommandTags(Tail(keys), Append(tags, OiioToExiftool[Head(keys)]))
    ELSE [ok |-> FALSE, tags |-> tags, unknown |-> Head(keys)]

\* The loop over the lines of the output: the attributes written to the spec.
RECURSIVE WriteAttributes(_, _)
WriteAttributes(spec, lines) ==
    IF lines = <<>> THEN spec
    ELSE LET key == Head(lines)[1]
             value == Head(lines)[2]
         IN  IF key = "FileName" THEN WriteAttributes(spec, Tail(lines))
             ELSE LET entry == ExiftoolToOiio[key]
                      written == IF entry[2] THEN Stof(value) ELSE value
                  IN  WriteAttributes(
                          [a \in DOMAIN spec \cup {entry[1]} |->
                              IF a = entry[1] THEN <<written>> ELSE spec[a]],
                          Tail(lines))

MsgNotFound == "Exiftool not found"
MsgUnknownKey == "Exiftool: unknown key"
MsgFailedToExecute == "Failed to execute exiftool"

\* Mutant: the attributes are written from whatever the stream holds before
\* the result of execute is looked at.
FetchMetadataEager(spec, tool, path, keys, errno_zero, readable) ==
    LET found == FindExiftool(tool, path)
        cmd == CommandTags(keys, <<>>)
        command == [tool |-> found.path, tags |-> cmd.tags]
        run == Execute(command, TRUE, readable)
        none(msg, commands) ==
            [ok |-> FALSE, spec |-> spec, msg |-> msg, commands |-> commands,
             found |-> found]
    IN  IF found.path = <<>> THEN none(MsgNotFound, <<>>)
        ELSE IF ~cmd.ok
        THEN [ok |-> FALSE, spec |-> WriteAttributes(spec, run.stream),
              msg |-> MsgUnknownKey, commands |-> <<command>>, found |-> found]
        ELSE IF ~run.ok THEN none(MsgFailedToExecute, <<command>>)
        ELSE [ok |-> TRUE, spec |-> WriteAttributes(spec, run.stream),
              msg |-> "", commands |-> <<command>>, found |-> found]

\* fetch_metadata( spec, path, keys ): what it returns, the spec afterwards,
\* the message it prints and the commands it executes.
FetchMetadata(spec, tool, path, keys, errno_zero, readable) ==
    LET found == FindExiftool(tool, path)
        cmd == CommandTags(keys, <<>>)
        command == [tool |-> found.path, tags |-> cmd.tags]
        run == Execute(command, errno_zero, readable)
        none(msg, commands) ==
            [ok |-> FALSE, spec |-> spec, msg |-> msg, commands |-> commands,
             found |-> found]
    IN  IF found.path = <<>> THEN none(MsgNotFound, <<>>)
        ELSE IF ~cmd.ok THEN none(MsgUnknownKey, <<>>)
        ELSE IF ~run.ok THEN none(MsgFailedToExecute, <<command>>)
        ELSE [ok |-> TRUE, spec |-> WriteAttributes(spec, run.stream),
              msg |-> "", commands |-> <<command>>, found |-> found]

\* The ImageSpec handed in: without attributes, or holding a camera make.
SpecsBefore == {<<>>, [cameraMake |-> <<"old make">>]}

CallFetchMetadata ==
    /\ pure.fn = "environment"
    /\ pure' = [fn |-> "fetch_metadata", in |-> pure.in,
                out |-> FetchMetadata(pure.in.spec, pure.in.tool, pure.in.path,
                                      pure.in.keys, pure.in.errno_zero,
                                      pure.in.readable)]
    /\ UNCHANGED <<cacheVars, orchVars, threads>>

InitExiftool ==
    /\ IdleInit
    /\ pure \in {[fn |-> "environment",
                   in |-> [spec |-> spec, tool |-> tool, path |-> path,
                           keys |-> keys, errno_zero |-> errno_zero,
                           readable |-> readable],
                   out |-> <<>>] :
                    spec \in SpecsBefore, tool \in ToolEnvs,
                    path \in PathEnvs, keys \in KeyLists,
                    errno_zero \in BOOLEAN, readable \in BOOLEAN}

SpecExiftool == InitExiftool /\ [][CallFetchMetadata]_vars

\* ------------------------------------------------- concurrent callers of fetch
\* Cache::fetch statement by statement, for callers that run on threads of
\* their own. The entries carry the identity of their list node: a reference
\* into a std::list stays with its node while other nodes come and go.

Callers == {"A", "B"}

\* What the callers serialize with the cache's mutex: nothing, the call of
\* fetch, or the call of fetch and their reading of the pair it returned.
Scopes == {"none", "fetch", "fetch and read"}

NoCaller == "nobody"

\* The callables of the callers: one that succeeds and writes the tests' value,
\* one that fails and writes nothing.
ThreadComputes == {c \in Computes : c.ok = (c.val = TestData)}

\* The value-initialised descriptor of a new node (an int in the tests).
NoDescriptor == 0

Idle ==
    [pc |-> "idle", d |-> NoDescriptor, c |-> Pair(FALSE, DefaultData),
     ref |-> 0, got |-> Pair(FALSE, DefaultData), read |-> "nothing"]

Node(id, d, ok, data) == [desc |-> d, success |-> ok, data |-> data, id |-> id]

\* The position of the node a reference denotes, 0 when the node is gone.
NodeAt(m, ref) ==
    IF \E i \in DOMAIN m : m[i].id = ref
    THEN CHOOSE i \in DOMAIN m : m[i].id = ref
    ELSE 0

\* _map.front(): a reference to the first node; on an empty list it denotes no
\* node.
Front(m) == IF m = <<>> THEN 0 ELSE m[1].id

\* The mutex of the cache is free, or the callers use none.
MayEnter(scope, holder) == scope = "none" \/ holder = NoCaller

ThreadsInit ==
    /\ _map = <<>>
    /\ disabled \in BOOLEAN
    /\ capacity \in Capacities
    /\ last = NoFetch
    /\ recency = <<>>
    /\ older = [d \in Descriptors |-> {}]
    /\ failed = {}
    /\ caches = [n \in CacheNames |-> NewCache]
    /\ solver \in {NewSolverOn(db) : db \in {x \in Databases : x.name = "full"}}
    /\ olast = NoCall
    /\ ncalls = 0
    /\ pure = NoPure
    /\ threads \in {[scope |-> sc, holder |-> NoCaller, started |-> 0,
                      nodes |-> 0, th |-> [t \in Callers |-> Idle]] :
                        sc \in Scopes}

ThreadFrame == UNCHANGED <<disabled, capacity, last, recency, older, failed,
                           orchVars, pure>>

\* Caller t moves on to position pc, holding the reference ref, the mutex
\* being with holder.
Goto(t, pc, ref, holder) ==
    [threads EXCEPT !.th[t].pc = pc, !.th[t].ref = ref, !.holder = holder]

\* t calls cache.fetch( d, func ): it waits for the mutex first if the callers
\* use one.
CallFetch(t, d, c) ==
    /\ threads.th[t].pc = "idle"
    /\ threads.started < MaxCalls
    /\ threads' = [threads EXCEPT !.started = @ + 1,
                                  !.th[t] = [Idle EXCEPT !.pc = "enter",
                                                         !.d = d,
                                                         !.c = Pair(c.ok, c.val)]]
    /\ UNCHANGED _map
    /\ ThreadFrame

Enter(t) ==
    /\ threads.th[t].pc = "enter"
    /\ MayEnter(threads.scope, threads.holder)
    /\ threads' = Goto(t, "scan", 0,
                       IF threads.scope = "none" THEN NoCaller ELSE t)
    /\ UNCHANGED _map
    /\ ThreadFrame

\* if ( disabled ) _map.clear(); else the scan, with the splice on a match.
Scan(t) ==
    LET i == Find(_map, threads.th[t].d) IN
    /\ threads.th[t].pc = "scan"
    /\ IF disabled
       THEN /\ _map' = Clear(_map)
            /\ threads' = Goto(t, "emplace", 0, threads.holder)
       ELSE IF i # 0
       THEN /\ _map' = Splice(_map, i)
            /\ threads' = Goto(t, "front", 0, threads.holder)
       ELSE /\ _map' = _map
            /\ threads' = Goto(t, "evict", 0, threads.holder)
    /\ ThreadFrame

\* if ( _map.size() == capacity ) _map.pop_back();
EvictStep(t) ==
    /\ threads.th[t].pc = "evict"
    /\ _map' = Evict(_map, capacity)
    /\ threads' = Goto(t, "emplace", 0, threads.holder)
    /\ ThreadFrame

\* _map.emplace_front(); auto &entry = _map.front();
Emplace(t) ==
    /\ threads.th[t].pc = "emplace"
    /\ _map' = <<Node(threads.nodes + 1, NoDescriptor, FALSE, DefaultData)>>
                   \o _map
    /\ threads' = [Goto(t, "write", Front(_map'), threads.holder)
                      EXCEPT !.nodes = @ + 1]
    /\ ThreadFrame

\* entry.first = descriptor; entry.second.first = func( entry.second.second );
\* return entry.second. A write through a reference whose node is gone is lost.
Write(t) ==
    LET me == threads.th[t]
        i == NodeAt(_map, me.ref)
    IN  /\ me.pc = "write"
        /\ _map' = IF i = 0 THEN _map
                   ELSE [_map EXCEPT ![i] =
                            Node(me.ref, me.d, me.c.ok, me.c.data)]
        /\ threads' = Goto(t, IF threads.scope = "fetch" THEN "leave" ELSE "read",
                           me.ref, threads.holder)
        /\ ThreadFrame

\* return _map.front().second, on a match
ReturnFront(t) ==
    /\ threads.th[t].pc = "front"
    /\ threads' = Goto(t, IF threads.scope = "fetch" THEN "leave" ELSE "read",
                       Front(_map), threads.holder)
    /\ UNCHANGED _map
    /\ ThreadFrame

\* The caller gives the mutex back.
Leave(t) ==
    /\ threads.th[t].pc = "leave"
    /\ threads' = Goto(t, IF threads.scope = "fetch" THEN "read" ELSE "idle",
                       threads.th[t].ref, NoCaller)
    /\ UNCHANGED _map
    /\ ThreadFrame

\* The caller reads entry.first and entry.second through the reference fetch
\* returned. Reading through a reference whose node is gone can yield any pair.
ReadPair(t, any) ==
    LET me == threads.th[t]
        i == NodeAt(_map, me.ref)
        next == IF threads.scope = "fetch and read" THEN "leave" ELSE "idle"
    IN  /\ me.pc = "read"
        /\ IF i # 0
           THEN threads' =
                  [threads EXCEPT
                     !.th[t].pc = next,
                     !.th[t].got = Pair(_map[i].success, _map[i].data),
                     !.th[t].read = IF _map[i].desc = me.d THEN "own"
                                                         ELSE "other"]
           ELSE threads' =
                  [threads EXCEPT
                     !.th[t].pc = next,
                     !.th[t].got = Pair(any.ok, any.val),
                     !.th[t].read = "dangling"]
        /\ UNCHANGED _map
        /\ ThreadFrame

ThreadsNext ==
    \E t \in Callers :
        \/ \E d \in Descriptors, c \in ThreadComputes : CallFetch(t, d, c)
        \/ Enter(t)
        \/ Scan(t)
        \/ EvictStep(t)
        \/ Emplace(t)
        \/ Write(t)
        \/ ReturnFront(t)
        \/ Leave(t)
        \/ \E any \in ThreadComputes : ReadPair(t, any)

SpecThreads == ThreadsInit /\ [][ThreadsNext]_vars

\* ------------------------------------------------------------------ claims

IsFetch == last.op = "fetch"

\* C1 (cache hit): on an enabled cache, a fetch of a descriptor for which an
\* entry is stored returns exactly that entry's stored (success, data) pair and
\* does not invoke compute, whatever compute would have returned or written.
C1_CacheHit ==
    (IsFetch /\ ~last.dis /\ last.pre # {}) =>
        (last.pre = {last.ret} /\ last.calls = 0)

\* A hit whose compute would have produced another flag and another value.
C1_Witness ==
    /\ IsFetch /\ ~last.dis /\ last.pre # {}
    /\ last.c.ok # last.ret.ok /\ last.c.data # last.ret.data

\* C2 (cache miss): on an enabled cache with no entry for d, fetch invokes
\* compute exactly once, returns the flag compute returned with the data it
\* wrote, and the entry for d holding that pair is then at the list head.
C2_CacheMiss ==
    (IsFetch /\ ~last.dis /\ last.pre = {}) =>
        /\ last.calls = 1
        /\ last.ret = last.c
        /\ _map # <<>>
        /\ _map[1] = Entry(last.d, last.c.ok, last.c.data)
        /\ StoredPairs(_map, last.d) = {last.c}

\* A miss on a cache that already held another entry.
C2_Witness ==
    /\ IsFetch /\ ~last.dis /\ last.pre = {} /\ last.preLen > 0
    /\ last.c.data # DefaultData

\* C3 (LRU eviction): on an enabled cache holding capacity-many distinct
\* descriptors, a fetch of a new descriptor removes exactly the entry whose last
\* fetch is the oldest and keeps the others with their pairs; a fetch of a
\* descriptor that was fetched before and is no longer stored is a miss that
\* invokes compute.
C3_LruEviction ==
    [][/\ (last'.op = "fetch" /\ Cardinality(Descs(_map)) = capacity
               /\ last'.d \notin Descs(_map)) =>
            \E e \in Descs(_map) :
                /\ Oldest(Descs(_map), recency) = {e}
                /\ Descs(_map') = (Descs(_map) \ {e}) \cup {last'.d}
                /\ Len(_map') = capacity
                /\ \A x \in Descs(_map) \ {e} :
                       StoredPairs(_map', x) = StoredPairs(_map, x)
       /\ (last'.op = "fetch" /\ last'.d \in Range(recency)
               /\ last'.d \notin Descs(_map)) =>
            (last'.calls = 1 /\ ~last'.hit /\ last'.ret = last'.c)
      ]_vars

\* An evicted descriptor is fetched again on a full cache of capacity >= 2.
C3_Witness ==
    /\ IsFetch /\ last.refetch /\ last.calls = 1
    /\ capacity >= 2 /\ last.preLen = capacity /\ Len(_map) = capacity

\* C4 (touch protects): a hit moves the entry to the list head; an entry is
\* evicted only when every descriptor that was stored at its last hit and has
\* not been fetched since is already gone; a hit on the head entry leaves the
\* list unchanged.
C4_TouchProtects ==
    [][/\ \A e \in Descs(_map) \ Descs(_map') : older[e] \cap Descs(_map) = {}
       /\ (last'.op = "fetch" /\ last'.d \in Descs(_map)) =>
            (_map' # <<>> /\ _map'[1].desc = last'.d)
       /\ (last'.op = "fetch" /\ _map # <<>> /\ _map[1].desc = last'.d) =>
            _map' = _map
      ]_vars

\* A touched entry is still stored after every entry that was stored at the
\* touch, and not fetched since, has been evicted.
C4_Witness ==
    \E d \in Descs(_map) :
        /\ older[d] # {}
        /\ older[d] \cap Descs(_map) = {}
        /\ Len(_map) = capacity

\* C5 (strict LRU): on an enabled cache the stored descriptors are the
\* min(capacity, k) most recently fetched distinct descriptors, k the number of
\* distinct descriptors fetched so far, in order of last fetch, latest first.
C5_StrictLru ==
    DescSeq(_map) =
        Take(recency, IF capacity < Len(recency) THEN capacity ELSE Len(recency))

\* More distinct descriptors fetched than fit, the last fetch a hit.
C5_Witness ==
    /\ Len(recency) > capacity /\ capacity >= 2
    /\ IsFetch /\ last.hit /\ Len(_map) = capacity

\* C6 (uniqueness): no two stored entries have equal descriptors, whatever the
\* sequence of fetches and of changes of the disabled flag.
C6_Uniqueness ==
    \A i, j \in DOMAIN _map : i # j => _map[i].desc # _map[j].desc

\* A stored descriptor was fetched again on the enabled cache next to other
\* entries, and the disabled flag has been set since.
C6_Witness ==
    /\ IsFetch /\ ~last.dis /\ last.pre # {} /\ Len(_map) >= 2
    /\ disabled

\* C7 (a failure is memoized): once compute returned false for d on a miss, a
\* fetch of d on the enabled cache returns success = false without invoking
\* compute, as long as the entry was neither evicted nor cleared.
C7_FailureMemoized ==
    (IsFetch /\ ~last.dis /\ last.memo) =>
        (~last.ret.ok /\ last.calls = 0)

\* A failure replayed although compute would now have succeeded.
C7_Witness ==
    IsFetch /\ ~last.dis /\ last.memo /\ last.c.ok /\ last.preLen >= 2

\* C8 (disabled cache): a fetch made while disabled invokes compute, returns the
\* freshly computed pair, and leaves none of the entries stored before the call.
C8_Disabled ==
    (IsFetch /\ last.dis) =>
        /\ last.calls = 1
        /\ last.ret = last.c
        /\ _map = <<Entry(last.d, last.c.ok, last.c.data)>>

\* A disabled fetch of a descriptor that was stored, with another pair, next to
\* other entries.
C8_Witness ==
    /\ IsFetch /\ last.dis /\ last.preLen >= 2
    /\ last.pre # {} /\ last.c \notin last.pre

IsCall == olast.fn # "none"

\* C9 (cached path equals uncached path): a call of one of the three spectral
\* fetch functions with disable_cache = false returns the success flag and the
\* value that the same call returns with disable_cache = true, that is, those of
\* a fresh solve on the solver passed to the call, whatever calls came before.
C9_CachedEqualsUncached ==
    (IsCall /\ ~olast.disable) =>
        (olast.success = olast.fresh.success /\ olast.out = olast.fresh.out)

\* C10 (error string on failure): when one of the three spectral fetch
\* functions returns false, error_message is non-empty on return and written by
\* this call. Stated for a caller that passed an empty error_message, the case
\* the claim names, where only this call can have written it; it covers the
\* failure replayed from a cached failed entry.
C10_ErrorStringOnFailure ==
    (IsCall /\ ~olast.success /\ olast.errIn = "") =>
        (olast.err # "" /\ olast.errWritten)

\* A step of SpecOrch that is a call of an orchestration function.
CallStep == ncalls' = ncalls + 1

\* C11 (a hit bypasses the solver): when a spectral fetch function finds its
\* entry in the cache it calls no method of the solver and leaves the caller's
\* solver as it was; otherwise the solve runs exactly once and the entry at the
\* head of that cache holds its flag and data when the function returns.
C11_HitBypassesSolver ==
    [][CallStep =>
         /\ olast'.hit =>
               (olast'.trace = <<>> /\ olast'.calls = 0 /\ solver' = solver)
         /\ ~olast'.hit =>
               /\ olast'.calls = 1
               /\ olast'.trace # <<>>
               /\ olast'.trace[1].m = "find_camera"
               /\ caches'[olast'.cache].map[1] =
                      Entry(olast'.key, olast'.solved.ok, olast'.solved.data)
      ]_vars

\* A hit on a solver that a fresh solve of the same call would have changed.
C11_Witness ==
    /\ IsCall /\ olast.hit /\ olast.trace = <<>>
    /\ solver.camera = NoCamera
    /\ olast.success

\* C12 (four distinct caches): there are four caches; a call of an
\* orchestration function changes the entries, their order and the disabled and
\* verbosity flags of no cache but its own; a hit is served from an entry of
\* its own cache, so that fetch_multipliers_from_illuminant never returns a
\* matrix entry nor fetch_matrix_from_illuminant a white-balance entry, although
\* both caches are keyed by (make, model, illuminant).
C12_DistinctCaches ==
    [][CallStep =>
         /\ Cardinality(DOMAIN caches) = 4
         /\ \A n \in DOMAIN caches : n # olast'.cache => caches'[n] = caches[n]
         /\ olast'.hit =>
               \E i \in DOMAIN caches[olast'.cache].map :
                   caches[olast'.cache].map[i].desc = olast'.key
         /\ (olast'.fn = "fetch_multipliers_from_illuminant" /\ olast'.success)
               => \A i \in 1..3 : olast'.out[i][1] = "wb"
         /\ (olast'.fn = "fetch_matrix_from_illuminant" /\ olast'.success)
               => olast'.out[1] = "idt"
      ]_vars

\* fetch_matrix_from_illuminant misses on a key the WB cache holds, at another
\* verbosity and with the cache flag set differently; the WB cache keeps its
\* entry and flags.
C12_Witness ==
    /\ IsCall /\ olast.fn = "fetch_matrix_from_illuminant"
    /\ ~olast.hit /\ olast.success /\ olast.disable
    /\ olast.key \in Descs(caches[WBFromIlluminant].map)
    /\ ~caches[WBFromIlluminant].disabled
    /\ caches[WBFromIlluminant].verbosity # caches[MatrixFromIlluminant].verbosity

\* C13 (fetch_matrix_from_metadata never fails): every entry of the
\* matrix-from-DNG-metadata cache has success = true, and after a call, be it a
\* hit, a miss or made with the cache disabled, out_matrix has exactly 3 rows of
\* 3 values, those of the matrix of the cache's entry for the given metadata,
\* whatever out_matrix held before.
C13_MetadataNeverFails ==
    LET m == caches[MatrixFromDNGMetadata].map IN
    /\ \A i \in DOMAIN m : m[i].success
    /\ olast.fn = "fetch_matrix_from_metadata" =>
          /\ olast.success
          /\ Len(olast.out) = 3
          /\ \A row \in 1..3 : Len(olast.out[row]) = 3
          /\ Find(m, olast.key) # 0
          /\ \A row \in 1..3 : \A col \in 1..3 :
                olast.out[row][col] = m[Find(m, olast.key)].data[row][col]
          /\ m[Find(m, olast.key)].data = MetadataIDT(olast.key)

\* A hit written into a matrix that was larger, at verbosity 1.
C13_Witness ==
    /\ olast.fn = "fetch_matrix_from_metadata" /\ olast.hit
    /\ Len(olast.outIn) = 4
    /\ caches[MatrixFromDNGMetadata].verbosity = 1

\* The fields of a Metadata value that the claim lists.
FieldsOf(md) ==
    <<md.baseline_exposure, md.neutral_RGB,
      md.calibration[1].illuminant,
      md.calibration[1].camera_calibration_matrix,
      md.calibration[1].XYZ_to_RGB_matrix,
      md.calibration[2].illuminant,
      md.calibration[2].camera_calibration_matrix,
      md.calibration[2].XYZ_to_RGB_matrix>>

\* The listed fields in which two values are not equal, a NaN being equal to
\* nothing.
Differing(a, b) ==
    {i \in 1..8 :
        IF i = 1 THEN DoubleNe(FieldsOf(a)[i], FieldsOf(b)[i])
        ELSE IF i \in {3, 6} THEN FieldsOf(a)[i] # FieldsOf(b)[i]
        ELSE VectorNe(FieldsOf(a)[i], FieldsOf(b)[i])}

\* A floating-point field of the value holds a NaN.
HasNaN(md) ==
    \/ md.baseline_exposure = NaN
    \/ \E i \in {2, 4, 5, 7, 8} : \E k \in DOMAIN FieldsOf(md)[i] :
           FieldsOf(md)[i][k] = NaN

\* C14 as stated (Metadata equality is structural): operator== returns true
\* exactly when baseline_exposure, neutral_RGB and the illuminant,
\* camera_calibration_matrix and XYZ_to_RGB_matrix of both calibration entries
\* are equal; a value that differs in a single one of them is unequal; the
\* relation is reflexive and symmetric.
C14_Original ==
    pure.fn = "operator==" =>
        /\ pure.out.eq = (Differing(pure.in[1], pure.in[2]) = {})
        /\ Cardinality(Differing(pure.in[1], pure.in[2])) = 1 => ~pure.out.eq
        /\ pure.out.self
        /\ pure.out.rev = pure.out.eq

\* C14 as amended: as above, but the relation is reflexive only on values whose
\* floating-point fields hold no NaN; a value holding one is unequal to itself.
C14_MetadataEquality ==
    pure.fn = "operator==" =>
        /\ pure.out.eq = (Differing(pure.in[1], pure.in[2]) = {})
        /\ Cardinality(Differing(pure.in[1], pure.in[2])) = 1 => ~pure.out.eq
        /\ pure.out.self = ~HasNaN(pure.in[1])
        /\ pure.out.rev = pure.out.eq

\* Two values compared that differ in the XYZ to RGB matrix of the second
\* calibration entry only.
C14_Witness ==
    /\ pure.fn = "operator=="
    /\ Differing(pure.in[1], pure.in[2]) = {8}
    /\ ~pure.out.eq /\ pure.out.self

\* No two entries for equal descriptors, no more entries than capacity, and
\* every caller that has read the returned pair read the one of its descriptor.
WellServed ==
    /\ \A i, j \in DOMAIN _map : i # j => _map[i].desc # _map[j].desc
    /\ Len(_map) <= capacity
    /\ \A t \in Callers :
          threads.th[t].read \in {"nothing", "own"}

\* C15 as stated (concurrent callers need external synchronization): when each
\* fetch on the cache runs under the cache's mutex, no interleaving of callers
\* reaches a state with two entries for equal descriptors or with more entries
\* than capacity, and every caller gets the pair for its own descriptor.
C15_Original ==
    threads.scope \in {"fetch", "fetch and read"} => WellServed

\* C15 as amended: the same when the mutex is held over the call of fetch and
\* the caller's reading of the pair through the returned reference. (Without a
\* mutex the callers reach the states excluded here: C15_Unsynchronized.)
C15_Synchronized ==
    threads.scope = "fetch and read" => WellServed

\* Both callers have fetched the same descriptor under the mutex, one of them
\* waiting at the mutex while the other was inside; the second was served the
\* entry the first had stored.
C15_Witness ==
    /\ threads.scope = "fetch and read"
    /\ \A t \in Callers : threads.th[t].read = "own" /\ threads.th[t].pc = "idle"
    /\ threads.th["A"].d = threads.th["B"].d
    /\ threads.th["A"].c # threads.th["B"].c
    /\ threads.th["A"].got = threads.th["B"].got
    /\ Len(_map) = 1

\* Two callers that use no mutex: the list holds two entries for one descriptor
\* and more entries than capacity.
C15_Unsynchronized ==
    /\ threads.scope = "none"
    /\ \E i, j \in DOMAIN _map : i # j /\ _map[i].desc = _map[j].desc
    /\ Len(_map) > capacity
    /\ \A t \in Callers : threads.th[t].pc = "idle"

\* C16 (solver preconditions): find_illuminant(wb_multipliers) on a solver
\* whose camera has not been found returns false and reports that the camera
\* needs to be initialised; calculate_WB() on a solver without a resolved
\* illuminant returns false and reports that the illuminant needs to be
\* initialised; in a solve of the orchestration, find_illuminant(wb_multipliers)
\* is called only after find_camera has returned true in that solve.
C16_SolverPreconditions ==
    /\ (pure.fn = "find_illuminant(wb)" /\ pure.in.camera = NoCamera) =>
          (~pure.out.ok /\ pure.out.msg = MsgCameraForIlluminant)
    /\ (pure.fn = "calculate_WB" /\ pure.in.illuminant = "") =>
          (~pure.out.ok /\ pure.out.msg = MsgIlluminantForWB)
    /\ \A i \in DOMAIN olast.trace :
          olast.trace[i].m = "find_illuminant(wb)" =>
              \E j \in 1..(i - 1) : olast.trace[j] = Step("find_camera", TRUE)

\* calculate_WB() called on a solver that has its camera and no illuminant,
\* after a solve in which find_illuminant(wb_multipliers) was called and failed.
C16_Witness ==
    /\ pure.fn = "calculate_WB" /\ pure.in.illuminant = ""
    /\ pure.in.camera.valid /\ ~pure.out.ok
    /\ \E i \in DOMAIN olast.trace :
          olast.trace[i] = Step("find_illuminant(wb)", FALSE)

\* C17 (light_source_to_color_temp on a 16-bit tag): for every tag >= 32768
\* the result is tag - 32768 (0 for 32768, 5000 for 37768, 7232 for 40000);
\* for a code of the table it is the table's temperature (2856 for code 17);
\* for every other code below 32768 (999 among them) it is 5500.
C17_LightSourceToColorTemp ==
    pure.fn = "light_source_to_color_temp" =>
        /\ pure.in >= 32768 => pure.out = pure.in - 32768
        /\ pure.in = 32768 => pure.out = 0
        /\ pure.in = 37768 => pure.out = 5000
        /\ pure.in = 40000 => pure.out = 7232
        /\ pure.in = 17 => pure.out = 2856
        /\ pure.in = 999 => pure.out = 5500
        /\ (pure.in < 32768 /\ pure.in \notin DOMAIN LightSourceTable) =>
              pure.out = 5500

\* The first extended tag converted: a temperature of 0.
C17_Witness ==
    /\ pure.fn = "light_source_to_color_temp"
    /\ pure.in = 32768 /\ pure.out = 0

\* C18 (find_illuminant on a type made of a number): a daylight type "d<n>" or
\* "D<n>" is resolved exactly when its temperature, n kelvin or n hundred
\* kelvin, is within 4000..25000 ("d3999" is not, "d4000" is); a blackbody
\* type "<n>K" exactly when n is within 1500..3999 ("1499K" is not, "1500K"
\* is); a refused type returns false with the message of its range and leaves
\* the solver without an illuminant.
C18_IlluminantRange ==
    pure.fn = "find_illuminant(type)" =>
        LET n == pure.in.n
            daylight == pure.in.sp[1] \in {"d", "D"}
        IN  /\ daylight =>
                  (pure.out.ok <=> (n \in 4000..25000 \/ n * 100 \in 4000..25000))
            /\ (daylight /\ n = 3999) => ~pure.out.ok
            /\ (daylight /\ n = 4000) => pure.out.ok
            /\ ~daylight => (pure.out.ok <=> n \in 1500..3999)
            /\ (~daylight /\ n = 1499) => ~pure.out.ok
            /\ (~daylight /\ n = 1500) => pure.out.ok
            /\ ~pure.out.ok =>
                  /\ solver.illuminant = ""
                  /\ pure.out.msg = IF daylight THEN MsgDaylightRange
                                                ELSE MsgBlackbodyRange
            /\ pure.out.ok =>
                  solver.illuminant = IlluminantType(pure.in.sp, n)

\* "d3999" refused with the message of the daylight range.
C18_Witness ==
    /\ pure.fn = "find_illuminant(type)"
    /\ pure.in = [sp |-> <<"d", "">>, n |-> 3999]
    /\ ~pure.out.ok /\ pure.out.msg = MsgDaylightRange
    /\ solver.illuminant = ""

\* C19 (main, once parse_parameters has accepted the command line): whenever
\* no file was given to process_image the exit status is 1 and the help is
\* printed; that is so when there is no filename argument or the only one is
\* the empty string, and also when the given paths yield no file.
C19_NoFileExitsOne ==
    (pure.fn = "main" /\ pure.in.parsed /\ pure.out.processed = <<>>) =>
        /\ pure.out.exit = 1
        /\ pure.out.help = 1

\* What holds of the two cases apart: without a filename the status is 1, the
\* help is printed once and process_image is not called; when the paths yield
\* no file the help is printed once as well, and the status is 0.
C19_Observed ==
    (pure.fn = "main" /\ pure.in.parsed /\ pure.out.processed = <<>>) =>
        /\ pure.out.help = 1
        /\ pure.out.exit =
              IF pure.in.files \in {<<>>, <<"">>} THEN 1 ELSE 0

\* A directory of filtered files only: help printed, status 0.
C19_NoFilesProcessed ==
    /\ pure.fn = "main" /\ pure.in.parsed
    /\ pure.in.files = <<"filtered">>
    /\ pure.out.exit = 0 /\ pure.out.help = 1 /\ pure.out.processed = <<>>

\* The message the orchestration layer has for a failed step of a solve.
StepMessage(method) ==
    CASE method = "find_camera" -> ErrCamera
      [] method = "load_spectral_data(training)" -> ErrTraining
      [] method = "load_spectral_data(observer)" -> ErrObserver
      [] method = "find_illuminant(type)" -> ErrIlluminant
      [] method = "find_illuminant(wb)" -> ErrSearch
      [] method = "calculate_WB" -> ErrWB
      [] OTHER -> ErrMatrix

\* The call was a miss whose solve failed; the step that failed is the last
\* one of the trace.
FailedMiss ==
    /\ olast.fn \in {"fetch_illuminant_from_multipliers",
                     "fetch_multipliers_from_illuminant",
                     "fetch_matrix_from_illuminant"}
    /\ olast.calls > 0 /\ ~olast.success
    /\ olast.trace # <<>> /\ ~olast.trace[Len(olast.trace)].ok

\* C20 (the three spectral fetch functions): after a miss whose solve failed,
\* the caller's error_message is the message of the inner step that failed:
\* the camera, training, observer or illuminant message of
\* configure_spectral_solver, or the message of the illuminant search or of
\* the white-balance calculation.
C20_InnerErrorPropagated ==
    FailedMiss => olast.err = StepMessage(olast.trace[Len(olast.trace)].m)

\* What holds: the two functions with a solve_error propagate the message;
\* fetch_matrix_from_illuminant leaves the caller's message if there is one
\* and writes its own otherwise, whichever step failed.
C20_Observed ==
    FailedMiss =>
        IF olast.fn = "fetch_matrix_from_illuminant"
        THEN olast.err = IF olast.errIn = "" THEN ErrMatrix ELSE olast.errIn
        ELSE olast.err = StepMessage(olast.trace[Len(olast.trace)].m)

\* fetch_matrix_from_illuminant on a camera that is not found: the message is
\* not the camera message.
C20_MatrixMessage ==
    /\ FailedMiss /\ olast.fn = "fetch_matrix_from_illuminant"
    /\ olast.trace = <<Step("find_camera", FALSE)>>
    /\ olast.errIn = "" /\ olast.err = ErrMatrix

\* C21 (fetch_multipliers_from_illuminant): when it returns true,
\* out_multipliers holds exactly three elements, the three values of the cache
\* entry of the descriptor; when it returns false, out_multipliers is empty
\* although the caller passed a vector that was not, on a miss whose solve
\* failed as on a hit of an entry stored as failed.
C21_MultipliersOutput ==
    olast.fn = "fetch_multipliers_from_illuminant" =>
        LET entry == caches[WBFromIlluminant].map[1] IN
        /\ entry.desc = olast.key /\ entry.success = olast.success
        /\ olast.success =>
              /\ Len(olast.out) = 3
              /\ \A i \in 1..3 : olast.out[i] = entry.data[i]
        /\ ~olast.success =>
              /\ olast.outIn # <<>>
              /\ olast.out = <<>>

\* A hit of an entry stored as failed empties the caller's vector.
C21_Witness ==
    /\ olast.fn = "fetch_multipliers_from_illuminant"
    /\ olast.hit /\ olast.calls = 0 /\ ~olast.success
    /\ olast.outIn = OutBefore /\ olast.out = <<>>

\* The solver calls of solve_matrix_from_illuminant in source order;
\* find_illuminant( type ) is among them when an illuminant is given.
MatrixSteps(ill) ==
    <<"find_camera", "load_spectral_data(training)",
      "load_spectral_data(observer)">> \o
    (IF ill # "" THEN <<"find_illuminant(type)">> ELSE <<>>) \o
    <<"calculate_WB", "calculate_IDT_matrix">>

Evicted == IsFetch /\ ~last.dis /\ ~last.hit /\ last.preLen = capacity

\* C23 (capacity bound, the capacity fixed at some N >= 1): after every fetch,
\* hit or miss, disabled or enabled, at most N entries are stored, and the
\* eviction step pop_back was run only on a list that held an entry.
C23_CapacityBound ==
    /\ capacity >= 1
    /\ Len(_map) <= capacity
    /\ Evicted => (last.preLen >= 1 /\ Len(_map) = last.preLen)

\* A miss on a full list of two: one entry evicted, two stored again.
C23_Witness ==
    /\ Evicted /\ capacity = 2 /\ last.preLen = 2 /\ Len(_map) = 2

\* C24 (capacity assigned between fetches, lowered below the number of stored
\* entries or set to 0): every later fetch leaves at most `capacity` entries
\* stored, and none runs pop_back on an empty list.
C24_BoundUnderChanges ==
    /\ IsFetch => Len(_map) <= capacity
    /\ pure.fn \notin {"pop_back", "stopped"}

\* What holds instead: the list is never longer than the largest capacity the
\* cache has had or, after a capacity of 0, than the number of descriptors.
C24_Observed == Len(_map) <= NumDescriptors

\* Two entries stored, the capacity lowered to 1, and a miss: three entries.
C24_Overfull ==
    /\ IsFetch /\ ~last.hit /\ ~last.dis
    /\ capacity = 1 /\ last.preLen = 2 /\ Len(_map) = 3

\* A fetch on the empty cache of capacity 0 ran pop_back on the empty list.
C24_PopsEmpty == pure.fn = "pop_back" /\ capacity = 0 /\ last.preLen = 0

\* The fetch before the last one was made with disabled = true, the last one
\* with disabled = false.
AfterDisabled ==
    /\ pure.fn = "fetch" /\ IsFetch /\ ~last.dis
    /\ pure.out.prev.op = "fetch" /\ pure.out.prev.dis

\* C25 (the state a disabled fetch leaves): after a fetch of d with disabled =
\* true the cache holds exactly one entry, d with the pair just computed; once
\* disabled is set to false, the next fetch of d is a hit that returns that
\* pair without invoking compute, and the next fetch of another descriptor,
\* those cached before the disabled call included, is a miss.
C25_AfterDisabledFetch ==
    /\ (IsFetch /\ last.dis) =>
          /\ _map = <<Entry(last.d, last.c.ok, last.c.data)>>
          /\ last.calls = 1 /\ last.ret = last.c
    /\ AfterDisabled =>
          LET prev == pure.out.prev IN
          IF last.d = prev.d
          THEN last.hit /\ last.calls = 0 /\ last.ret = prev.c
          ELSE ~last.hit /\ last.calls = 1 /\ last.pre = {}

\* A descriptor cached before the disabled call, fetched after it: a miss.
C25_Witness ==
    /\ AfterDisabled
    /\ last.d # pure.out.prev.d /\ last.d \in pure.out.stored
    /\ ~last.hit /\ last.calls = 1

\* The descriptor of the disabled call, fetched after it: a hit.
C25_Hit ==
    /\ AfterDisabled /\ last.d = pure.out.prev.d
    /\ last.hit /\ last.ret = pure.out.prev.c

\* The (success, data) pairs stored for the descriptors of S are the same
\* before and after the step.
SamePairs(S) ==
    \A d \in S : StoredPairs(_map', d) = StoredPairs(_map, d)

\* C26 (stored results are immutable): a hit changes at most the order of the
\* entries, neither the set of stored descriptors nor a stored pair, and
\* returns the pair that was stored; a miss changes the pair of no entry that
\* remains stored.
C26_StoredImmutable ==
    [][((last' # last \/ _map' # _map) /\ last'.op = "fetch") =>
          IF last'.hit
          THEN /\ Descs(_map') = Descs(_map)
               /\ Len(_map') = Len(_map)
               /\ SamePairs(Descriptors)
               /\ StoredPairs(_map, last'.d) = {last'.ret}
          ELSE SamePairs(Descs(_map') \ {last'.d})]_vars

\* A hit, next to another entry, on an entry that holds a failed result: it
\* is the first entry, with the pair it had.
C26_Witness ==
    /\ IsFetch /\ last.hit /\ ~last.ret.ok
    /\ Len(_map) = 2 /\ last.pre = {last.ret}
    /\ _map[1] = Entry(last.d, last.ret.ok, last.ret.data)

\* C27 (outputs on failure): when fetch_illuminant_from_multipliers returns
\* false, out_illuminant is what the caller passed, and when
\* fetch_matrix_from_illuminant returns false, out_matrix is what the caller
\* passed: neither is cleared or partly written.
C27_OutputsKeptOnFailure ==
    (/\ olast.fn \in {"fetch_illuminant_from_multipliers",
                      "fetch_matrix_from_illuminant"}
     /\ ~olast.success) =>
        /\ olast.out = olast.outIn
        /\ olast.outIn = IF olast.fn = "fetch_matrix_from_illuminant"
                         THEN OutBefore ELSE IlluminantBefore

\* fetch_matrix_from_illuminant failed on a hit of an entry stored as failed:
\* the caller's matrix is as it was.
C27_Witness ==
    /\ olast.fn = "fetch_matrix_from_illuminant"
    /\ ~olast.success /\ olast.hit
    /\ olast.out = OutBefore

\* The files of the batches, batch after batch.
RECURSIVE Flatten(_)
Flatten(batches) ==
    IF batches = <<>> THEN <<>> ELSE Head(batches) \o Flatten(Tail(batches))

\* main went past the check of the filename arguments.
Processing ==
    /\ pure.fn = "main" /\ pure.in.parsed
    /\ pure.in.files \notin {<<>>, <<"">>}

\* C28 (main stops at the first failure): the files are given to process_image
\* one at a time, in batch order and within a batch in list order, with
\* file_index 1, 2, ... never above total_files; after the first call that
\* returns false no file of any batch is processed and main returns 1; when
\* every call returns true all total_files files are processed.
C28_StopsAtFirstFailure ==
    Processing =>
        LET all == Flatten(CollectImageFiles(pure.in.files))
            done == pure.out.processed
            n == Len(done)
            bad == {i \in DOMAIN all : all[i] \in pure.in.failing}
        IN  /\ pure.out.total_files = Len(all)
            /\ n <= Len(all) /\ done = SubSeq(all, 1, n)
            /\ pure.out.printed = [i \in 1..n |-> i]
            /\ \A i \in 1..(n - 1) : done[i] \notin pure.in.failing
            /\ IF bad = {}
               THEN n = Len(all) /\ pure.out.exit = 0
               ELSE /\ n \in bad /\ \A i \in bad : n <= i
                    /\ pure.out.exit = 1

\* The only file of the first batch fails: the batch of the directory is not
\* processed.
C28_Witness ==
    /\ Processing
    /\ pure.in.files = <<"a.raw", "dir">> /\ pure.in.failing = {"a.raw"}
    /\ pure.out.processed = <<"a.raw">> /\ pure.out.total_files = 2
    /\ pure.out.exit = 1

\* find_exiftool returned what the lookup order asks for: the value of
\* RAWTOACES_EXIFTOOL_PATH as it is when the variable is set, without reading
\* PATH and without a call of exists; otherwise the exiftool path under the
\* first directory of PATH, in PATH order, where it exists, and the empty
\* string when there is none or PATH is not set.
LookupOrder ==
    LET tool == pure.in.tool
        found == pure.out.found
        dirs == IF pure.in.path.set THEN SplitPath(pure.in.path.value) ELSE <<>>
        at(i) == PathAppend(dirs[i], Name)
    IN  IF tool.set
        THEN /\ found.path = tool.value
             /\ found.trace = <<<<"getenv", "RAWTOACES_EXIFTOOL_PATH">>>>
        ELSE /\ Len(found.trace) >= 2
             /\ found.trace[1] = <<"getenv", "RAWTOACES_EXIFTOOL_PATH">>
             /\ found.trace[2] = <<"getenv", "PATH">>
             /\ IF \E i \in DOMAIN dirs : at(i) \in ExistingFiles
                THEN \E i \in DOMAIN dirs :
                        /\ found.path = at(i) /\ at(i) \in ExistingFiles
                        /\ \A j \in 1..(i - 1) : at(j) \notin ExistingFiles
                ELSE found.path = <<>>

\* The variable is set to a value that is not the path of the tool, and every
\* key asked for is known.
BadValue ==
    /\ pure.in.tool.set /\ pure.in.tool.value \notin ExistingFiles
    /\ \A i \in DOMAIN pure.in.keys : pure.in.keys[i] \in DOMAIN OiioToExiftool

\* C29 as stated: the lookup order, and every bad value of the variable leads
\* to 'Failed to execute exiftool', not to 'Exiftool not found'.
C29_Original ==
    pure.fn = "fetch_metadata" =>
        /\ LookupOrder
        /\ BadValue => pure.out.msg = MsgFailedToExecute

\* C29 (exiftool lookup order): the lookup order as above; a bad value of the
\* variable that is not empty leads to 'Failed to execute exiftool', and the
\* empty value, returned as it is like any other, leads to 'Exiftool not
\* found' although PATH may hold the tool.
C29_LookupOrder ==
    pure.fn = "fetch_metadata" =>
        /\ LookupOrder
        /\ BadValue =>
              pure.out.msg = IF pure.in.tool.value = <<>> THEN MsgNotFound
                                                        ELSE MsgFailedToExecute

\* The variable names nothing while PATH holds the tool: the value is returned
\* and PATH is not read.
C29_Witness ==
    /\ pure.fn = "fetch_metadata"
    /\ pure.in.tool = EnvValue(<<"bad_path">>)
    /\ pure.in.path = EnvValue(<<"u">>)
    /\ pure.in.keys = <<"cameraMake">>
    /\ pure.out.found.path = <<"bad_path">>
    /\ Len(pure.out.found.trace) = 1
    /\ pure.out.msg = MsgFailedToExecute

\* The variable is not set and PATH holds two directories with the tool: the
\* first one is taken.
C29_FirstInPath ==
    /\ pure.fn = "fetch_metadata" /\ ~pure.in.tool.set
    /\ pure.in.path = EnvValue(<<"o", Delimiter, "u">>)
    /\ pure.out.found.path = PathAppend(<<"o">>, Name)

\* C30 (fetch_metadata fails without side effects): it returns false and
\* leaves the ImageSpec as it was when exiftool is not found, when a key asked
\* for is not one of the five known keys (no command is executed then, also
\* when known keys come before it in the list), and when the executed command
\* gives no output; the spec is written only after the command has succeeded.
C30_FailsWithoutSideEffects ==
    pure.fn = "fetch_metadata" =>
        LET in == pure.in
            out == pure.out
            untouched == ~out.ok /\ out.spec = in.spec
            unknown == \E i \in DOMAIN in.keys :
                           in.keys[i] \notin DOMAIN OiioToExiftool
            output == out.found.path \in ExistingFiles /\ in.readable
        IN  /\ out.found.path = <<>> =>
                  untouched /\ out.commands = <<>> /\ out.msg = MsgNotFound
            /\ (out.found.path # <<>> /\ unknown) =>
                  untouched /\ out.commands = <<>> /\ out.msg = MsgUnknownKey
            /\ (out.found.path # <<>> /\ ~unknown /\ ~output) =>
                  /\ untouched /\ Len(out.commands) = 1
                  /\ out.msg = MsgFailedToExecute
            /\ ~out.ok => out.spec = in.spec
            /\ out.spec # in.spec =>
                  out.ok /\ Len(out.commands) = 1 /\ output /\ in.errno_zero

\* A known key followed by an unknown one, the tool installed and the image
\* readable: nothing is executed and the spec keeps its camera make.
C30_Witness ==
    /\ pure.fn = "fetch_metadata"
    /\ pure.in.keys = <<"cameraMake", "bad_key">>
    /\ pure.out.found.path \in ExistingFiles /\ pure.in.readable
    /\ pure.in.spec = [cameraMake |-> <<"old make">>]
    /\ ~pure.out.ok /\ pure.out.commands = <<>>
    /\ pure.out.spec = pure.in.spec

\* A successful call: the camera make is replaced and the aperture written as
\* a float.
C30_Written ==
    /\ pure.fn = "fetch_metadata" /\ pure.out.ok
    /\ pure.in.keys = <<"cameraMake", "aperture">>
    /\ pure.in.spec = [cameraMake |-> <<"old make">>]
    /\ pure.out.spec = [cameraMake |-> <<"NIKON CORPORATION">>,
                         aperture |-> <<80>>]

====
